---- MODULE Spec2Model ----
(***************************************************************************)
(* The RIB store of fernglas (src/src/store.rs, src/src/store_impl.rs),    *)
(* the route distinguisher codec (src/src/route_distinguisher.rs) and the  *)
(* BMP ingestion session (src/src/bmp_collector.rs) as a state machine.    *)
(*                                                                         *)
(* Option<T> is modelled as a sequence of length at most one:              *)
(* None == <<>>, Some(x) == <<x>>.                                         *)
(***************************************************************************)
EXTENDS Integers, Sequences, FiniteSets, TLC

VARIABLES
    clients,    \* InMemoryStore.clients : SocketAddr -> Client
    sessions,   \* InMemoryStore.sessions: SessionId  -> Session
    tables,     \* InMemoryStore.tables  : TableSelector -> ((PathId, IpNet) -> attrs)
    poisoned,   \* TRUE once a thread panicked while holding the clients and tables mutexes
    caches,     \* InMemoryStore.caches  : the interned attribute sets
    conn,       \* per socket address, the task of the BMP connection accepted from it
    stream,     \* the get_routes stream in progress: producer, channel and consumer
    threads,    \* per thread, the lock steps left of its call and the locks it holds
    since,      \* history: per client address, what ran for it since its last client_down
    last        \* history: the operation that ran last, with its arguments and outcome

vars == <<clients, sessions, tables, poisoned, caches, conn, stream, threads, since, last>>

None == <<>>
Some(x) == <<x>>

Threads == {"t1", "t2", "t3"}

(***************************************************************************)
(* Bounds of the model.                                                    *)
(***************************************************************************)
MaxTables == 2      \* tables in the table map at one time
MaxRoutes == 2      \* entries in all tables together

(***************************************************************************)
(* Route distinguishers, sessions, table types, selectors.                 *)
(***************************************************************************)
\* A 32-bit number is kept as its two 16-bit halves <<high, low>>, so that
\* the whole range of u32 is within reach; a 16-bit number n is <<0, n>>.
\* Every field of a route distinguisher is such a pair.
U32(n) == <<n \div 65536, n % 65536>>
RdDefault == [t |-> "Default", a |-> <<0, 0>>, v |-> <<0, 0>>]
RdType0(asn, value) == [t |-> "Type0", a |-> <<0, asn>>, v |-> U32(value)]
RdType1(ip, value) == [t |-> "Type1", a |-> ip, v |-> <<0, value>>]
RdType2(asn, value) == [t |-> "Type2", a |-> asn, v |-> <<0, value>>]

is_default(rd) == rd = RdDefault

SessionId(from_client, peer_address) ==
    [from_client |-> from_client, peer_address |-> peer_address]

PrePolicyAdjIn == [kind |-> "PrePolicyAdjIn", route_state |-> "-"]
PostPolicyAdjIn == [kind |-> "PostPolicyAdjIn", route_state |-> "-"]
LocRib(route_state) == [kind |-> "LocRib", route_state |-> route_state]

TableSelector(rd, sid, tt) ==
    [route_distinguisher |-> rd, session_id |-> sid, table_type |-> tt]

client_addr(sel) == sel.session_id.from_client

session_id(sel) ==
    IF sel.table_type.kind = "LocRib" THEN None ELSE Some(sel.session_id)

route_state(sel) ==
    CASE sel.table_type.kind = "LocRib" -> sel.table_type.route_state
      [] sel.table_type.kind = "PostPolicyAdjIn" -> "Accepted"
      [] sel.table_type.kind = "PrePolicyAdjIn" -> "Seen"

(***************************************************************************)
(* Prefixes: an IpNet is its address family and the bits of its network    *)
(* part; V4 builds one from dotted octets and a prefix length.             *)
(***************************************************************************)
RECURSIVE BitsOf(_, _)
BitsOf(n, width) ==
    IF width = 0 THEN <<>>
    ELSE Append(BitsOf(n \div 2, width - 1), n % 2)

RECURSIVE Flatten(_)
Flatten(ss) == IF ss = <<>> THEN <<>> ELSE Head(ss) \o Flatten(Tail(ss))

V4(octets, len) ==
    [fam |-> 4,
     bits |-> SubSeq(Flatten([i \in 1..4 |-> BitsOf(octets[i], 8)]), 1, len)]

V6(octets, len) ==
    [fam |-> 6,
     bits |-> SubSeq(Flatten([i \in 1..Len(octets) |-> BitsOf(octets[i], 8)]), 1, len)]

IsPrefixOf(p, s) == Len(p) <= Len(s) /\ SubSeq(s, 1, Len(p)) = p

\* stored prefix p covers net n (same family, n inside p)
NetContains(p, n) == p.fam = n.fam /\ IsPrefixOf(p.bits, n.bits)

(***************************************************************************)
(* RIB table (crate::table_impl::InMemoryTable): (path_id, prefix) ->      *)
(* attrs, with the four prefix queries.  A table is a function whose       *)
(* domain is the set of its keys <<path_id, net>>.                         *)
(***************************************************************************)
EmptyTable == [k \in {} |-> None]

TableUpdateRoute(tbl, path_id, net, attrs) ==
    [k \in DOMAIN tbl \cup {<<path_id, net>>} |->
        IF k = <<path_id, net>> THEN attrs ELSE tbl[k]]

TableWithdrawRoute(tbl, path_id, net) ==
    [k \in DOMAIN tbl \ {<<path_id, net>>} |-> tbl[k]]

Contains(net) == [mode |-> "Contains", net |-> net]
MostSpecific(net) == [mode |-> "MostSpecific", net |-> net]
Exact(net) == [mode |-> "Exact", net |-> net]
OrLonger(net) == [mode |-> "OrLonger", net |-> net]

StoredNets(tbl) == {k[2] : k \in DOMAIN tbl}

\* longest-prefix lookup: walk from the queried net towards the root and stop
\* at the first prefix the table stores
RECURSIVE LongestMatch(_, _)
LongestMatch(tbl, net) ==
    IF net \in StoredNets(tbl) THEN Some(net)
    ELSE IF net.bits = <<>> THEN None
    ELSE LongestMatch(tbl, [net EXCEPT !.bits = SubSeq(net.bits, 1, Len(net.bits) - 1)])

\* the keys a net query selects; an absent query selects every key
TableMatchingKeys(tbl, net_query) ==
    IF net_query = None THEN DOMAIN tbl
    ELSE LET nq == net_query[1] IN
        CASE nq.mode = "Contains" ->
                {k \in DOMAIN tbl : NetContains(k[2], nq.net)}
          [] nq.mode = "MostSpecific" ->
                {k \in DOMAIN tbl : Some(k[2]) = LongestMatch(tbl, nq.net)}
          [] nq.mode = "Exact" ->
                {k \in DOMAIN tbl : k[2] = nq.net}
          [] nq.mode = "OrLonger" ->
                {k \in DOMAIN tbl : NetContains(nq.net, k[2])}

\* InMemoryTable::get_routes: (net, path_id, attrs) of every selected key
TableGetRoutes(tbl, net_query) ==
    {[net |-> k[2], path_id |-> k[1], attrs |-> tbl[k]] :
        k \in TableMatchingKeys(tbl, net_query)}

(***************************************************************************)
(* The AS-path filter of get_routes: the path is rendered as its decimal   *)
(* AS numbers joined by one space and searched with the regular            *)
(* expression.  Texts and patterns are sequences of characters; the        *)
(* patterns of the model are literals (digits and spaces), which match     *)
(* where they occur as a substring, and "(", which does not compile.       *)
(***************************************************************************)
Digits == <<"0", "1", "2", "3", "4", "5", "6", "7", "8", "9">>

RECURSIVE to_string(_)
to_string(n) ==
    IF n < 10 THEN <<Digits[n + 1]>>
    ELSE to_string(n \div 10) \o <<Digits[(n % 10) + 1]>>

RECURSIVE join(_, _)
join(texts, sep) ==
    IF texts = <<>> THEN <<>>
    ELSE IF Len(texts) = 1 THEN texts[1]
    ELSE texts[1] \o sep \o join(Tail(texts), sep)

as_path_text(as_path) ==
    join([i \in 1..Len(as_path) |-> to_string(as_path[i])], <<" ">>)

RegexNewOk(pattern) == \A i \in 1..Len(pattern) : pattern[i] # "("

is_match(pattern, text) ==
    \E i \in 0..(Len(text) - Len(pattern)) :
        SubSeq(text, i + 1, i + Len(pattern)) = pattern

\* nets_filter_fn: no regex keeps every route; with one, a route without an
\* AS path is dropped
nets_filter_fn(as_path_regex, attrs) ==
    IF as_path_regex = None THEN TRUE
    ELSE IF attrs.as_path = None THEN FALSE
    ELSE is_match(as_path_regex[1], as_path_text(attrs.as_path[1]))

(***************************************************************************)
(* Route attributes, clients, sessions, queries.                           *)
(***************************************************************************)
DefaultRouteAttrs ==
    [origin |-> None, as_path |-> None, communities |-> None,
     large_communities |-> None, med |-> None, local_pref |-> None,
     nexthop |-> None]

Client(client_name, router_id) ==
    [client_name |-> client_name, router_id |-> router_id]

Session == [payload |-> "Session"]     \* pub struct Session {}

TableQueryTable(sel) == [kind |-> "Table", arg |-> sel]
TableQuerySession(sid) == [kind |-> "Session", arg |-> sid]
TableQueryClient(addr) == [kind |-> "Client", arg |-> addr]
TableQueryRouter(router_id) == [kind |-> "Router", arg |-> router_id]

QueryLimits(per_table, overall) ==
    [max_results_per_table |-> per_table, max_results |-> overall]

DefaultMaxResultsPerTable == 200
DefaultMaxResults == 500
UsizeMax == 2147483647      \* usize::MAX: more than any number of results

QueryLimitsDefault == QueryLimits(DefaultMaxResultsPerTable, DefaultMaxResults)

Query(table_query, net_query, limits, as_path_regex, rd) ==
    [table_query |-> table_query, net_query |-> net_query, limits |-> limits,
     as_path_regex |-> as_path_regex, route_distinguisher |-> rd]

IsKind(q, kind) == q.table_query # None /\ q.table_query[1].kind = kind

(***************************************************************************)
(* InMemoryStore: table lookup and candidate selection.                    *)
(***************************************************************************)
\* get_table: entry(sel).or_insert(new table); the map after the call
get_table(tbls, sel) ==
    IF sel \in DOMAIN tbls THEN tbls
    ELSE [k \in DOMAIN tbls \cup {sel} |-> IF k = sel THEN EmptyTable ELSE tbls[k]]

\* mutant: goes through session_id(), which a LocRib selector does not have
tables_for_client_fn_session(query_from_client, k) ==
    session_id(k) # None /\ session_id(k)[1].from_client = query_from_client

tables_for_client_fn(query_from_client, k) == client_addr(k) = query_from_client

\* mutant: compares the peer address alone
tables_for_session_fn_peer(sid, k) ==
    session_id(k) # None /\ session_id(k)[1].peer_address = sid.peer_address

tables_for_session_fn(sid, k) == session_id(k) = Some(sid)

\* clients.get(k.client_addr()).unwrap(): panics for a table whose client is
\* not registered, the clients and tables mutexes being held
RouterLookupPanics(tbls, clts) ==
    \E k \in DOMAIN tbls : client_addr(k) \notin DOMAIN clts

tables_for_router_fn(clts, query_router_id, k) ==
    clts[client_addr(k)].router_id = query_router_id

get_tables_for_client(tbls, addr) ==
    {k \in DOMAIN tbls : tables_for_client_fn(addr, k)}

get_tables_for_router(tbls, clts, router_id) ==
    {k \in DOMAIN tbls : tables_for_router_fn(clts, router_id, k)}

get_tables_for_session(tbls, sid) ==
    {k \in DOMAIN tbls : tables_for_session_fn(sid, k)}

\* the table map after the candidate selection of get_routes(q)
TablesAfterSelect(tbls, q) ==
    IF IsKind(q, "Table") THEN get_table(tbls, q.table_query[1].arg) ELSE tbls

\* mutant: an explicit Table query skips the retain on the route distinguisher
Candidates_TableUnfiltered(tbls, clts, q) ==
    LET all == IF q.table_query = None THEN DOMAIN tbls
               ELSE LET tq == q.table_query[1] IN
                 CASE tq.kind = "Table" -> {tq.arg}
                   [] tq.kind = "Client" -> get_tables_for_client(tbls, tq.arg)
                   [] tq.kind = "Router" -> get_tables_for_router(tbls, clts, tq.arg)
                   [] tq.kind = "Session" -> get_tables_for_session(tbls, tq.arg)
    IN {k \in all : IsKind(q, "Table") \/ k.route_distinguisher = q.route_distinguisher}

\* the selectors get_routes(q) scans: the match on table_query, then the
\* retain on the route distinguisher
Candidates(tbls, clts, q) ==
    LET all == IF q.table_query = None THEN DOMAIN tbls
               ELSE LET tq == q.table_query[1] IN
                 CASE tq.kind = "Table" -> {tq.arg}
                   [] tq.kind = "Client" -> get_tables_for_client(tbls, tq.arg)
                   [] tq.kind = "Router" -> get_tables_for_router(tbls, clts, tq.arg)
                   [] tq.kind = "Session" -> get_tables_for_session(tbls, tq.arg)
    IN {k \in all : k.route_distinguisher = q.route_distinguisher}

\* mutant: a supplied 0 is used as the limit itself
EffectiveLimits_ZeroIsZero(q) ==
    LET limits == IF q.limits = None THEN QueryLimitsDefault ELSE q.limits[1] IN
    [max_results |-> limits.max_results,
     max_results_per_table |-> limits.max_results_per_table]

EffectiveLimits(q) ==
    LET limits == IF q.limits = None THEN QueryLimitsDefault ELSE q.limits[1] IN
    [max_results |->
        IF limits.max_results = 0 THEN UsizeMax ELSE limits.max_results,
     max_results_per_table |->
        IF limits.max_results_per_table = 0 THEN UsizeMax
        ELSE limits.max_results_per_table]

Min(a, b) == IF a <= b THEN a ELSE b

\* Iterator::take(n) over a collection whose order the caller does not
\* control: any n of its elements, all of them when there are fewer
Take(S, n) == {T \in SUBSET S : Cardinality(T) = Min(n, Cardinality(S))}

\* mutant: the scan reads the whole table, without the net query
TableScan_Unfiltered(tbls, q, k) ==
    LET routes == TableGetRoutes(tbls[k], None)
        kept == {[table |-> k, net |-> r.net, path_id |-> r.path_id, attrs |-> r.attrs] :
                    r \in {x \in routes : nets_filter_fn(q.as_path_regex, x.attrs)}}
    IN Take(kept, EffectiveLimits(q).max_results_per_table)

\* what the scan of one candidate table can send: its matching routes,
\* filtered by the AS-path regex, cut to max_results_per_table
TableScan(tbls, q, k) ==
    LET routes == TableGetRoutes(tbls[k], Some(q.net_query))
        kept == {[table |-> k, net |-> r.net, path_id |-> r.path_id, attrs |-> r.attrs] :
                    r \in {x \in routes : nets_filter_fn(q.as_path_regex, x.attrs)}}
    IN Take(kept, EffectiveLimits(q).max_results_per_table)

RECURSIVE Produced(_, _, _)
Produced(tbls, q, cands) ==
    IF cands = {} THEN {{}}
    ELSE LET k == CHOOSE x \in cands : TRUE IN
         {a \cup b : a \in TableScan(tbls, q, k), b \in Produced(tbls, q, cands \ {k})}

\* the consumer's filter_map: a route of a table without a registered client
\* is dropped; the others become QueryResults (path_id is kept to tell the
\* results of two paths to one prefix apart; the code's QueryResult has none)
Enrich(clts, sess, sent) ==
    {[state |-> route_state(r.table), net |-> r.net, table |-> r.table,
      attrs |-> r.attrs, client |-> clts[client_addr(r.table)],
      session |-> IF session_id(r.table) # None /\ r.table.session_id \in DOMAIN sess
                  THEN Some(sess[r.table.session_id]) ELSE None,
      path_id |-> r.path_id] :
        r \in {x \in sent : client_addr(x.table) \in DOMAIN clts}}

\* every result set get_routes(q) can yield, the stream read to its end
GetRoutesResults(tbls, clts, sess, q) ==
    LET tbls1 == TablesAfterSelect(tbls, q) IN
    UNION {Take(Enrich(clts, sess, sent), EffectiveLimits(q).max_results) :
            sent \in Produced(tbls1, q, Candidates(tbls1, clts, q))}

\* Regex::new(..).unwrap() on a pattern that does not compile
RegexPanics(q) == q.as_path_regex # None /\ ~RegexNewOk(q.as_path_regex[1])

get_routers(clts) == clts

get_routing_instances(tbls) ==
    [a \in {client_addr(k) : k \in DOMAIN tbls} |->
        {k.route_distinguisher : k \in {x \in DOMAIN tbls : client_addr(x) = a}}]

(***************************************************************************)
(* The values the operations are called with.                              *)
(***************************************************************************)
Addrs == {"a1", "a2"}
S1 == SessionId("a1", "p1")
S2 == SessionId("a1", "p2")
S3 == SessionId("a2", "p1")
RdA == RdType0(100, 1)
RDs == {RdDefault, RdA}

T1 == TableSelector(RdDefault, S1, PrePolicyAdjIn)
T2 == TableSelector(RdDefault, S1, PostPolicyAdjIn)
T3 == TableSelector(RdDefault, S1, LocRib("Selected"))
T4 == TableSelector(RdA, S1, PrePolicyAdjIn)
T5 == TableSelector(RdDefault, S2, PrePolicyAdjIn)
T6 == TableSelector(RdDefault, S3, PrePolicyAdjIn)

N8 == V4(<<10, 0, 0, 0>>, 8)
N16 == V4(<<10, 1, 0, 0>>, 16)
Host == V4(<<10, 1, 2, 3>>, 32)
Root4 == V4(<<0, 0, 0, 0>>, 0)

AttrsA == [DefaultRouteAttrs EXCEPT !.as_path = Some(<<65001, 65002>>)]
AttrsB == [DefaultRouteAttrs EXCEPT !.med = Some(5)]

\* Spec: the life cycle of clients, sessions and tables
ClientUps == {<<"a1", Client("rtr1", "r1")>>, <<"a2", Client("rtr2", "r2")>>}
SessionIds == {S1, S3}
Selectors == {T1, T2, T3, T4, T5, T6}
PathIds == {0, 1}
Nets == {N8}
AttrsSet == {AttrsA}
Queries ==
    {Query(tq, OrLonger(Root4), None, None, RdDefault) :
        tq \in {None, Some(TableQueryClient("a1")), Some(TableQueryRouter("r1")),
                Some(TableQuerySession(S1)), Some(TableQueryTable(T1)),
                Some(TableQueryTable(T6))}}

(***************************************************************************)
(* The store as a state machine.  The handlers run one at a time.          *)
(***************************************************************************)
TotalRoutes(tbls) ==
    Cardinality({<<k, e>> : k \in DOMAIN tbls, e \in UNION {DOMAIN tbls[x] : x \in DOMAIN tbls}}
                \cap UNION {{<<k, e>> : e \in DOMAIN tbls[k]} : k \in DOMAIN tbls})

WithinBounds(tbls) ==
    Cardinality(DOMAIN tbls) <= MaxTables /\ TotalRoutes(tbls) <= MaxRoutes

Restrict(f, S) == [x \in S |-> f[x]]

Touch(addr) == [since EXCEPT ![addr] = IF @ = "down" THEN "touched" ELSE @]

\* Caches (crate::compressed_attrs): a handle is modelled by the attribute
\* set it stands for, the cache by the set of interned attribute sets.
\* remove_expired frees the entries no table entry refers to.
remove_expired_All(cache, tbls) == {}

\* the attribute sets the entries of these tables hold handles to
Referenced(tbls) == UNION {{tbls[k][e] : e \in DOMAIN tbls[k]} : k \in DOMAIN tbls}

remove_expired(cache, tbls) == cache \cap Referenced(tbls)

Init ==
    /\ clients = [a \in {} |-> None]
    /\ sessions = [s \in {} |-> None]
    /\ tables = [k \in {} |-> None]
    /\ poisoned = FALSE
    /\ caches = {}
    /\ conn = [a \in Addrs |-> [pc |-> "idle", downs |-> 0]]
    /\ stream = [phase |-> "none"]
    /\ threads = [t \in Threads |-> [prog |-> <<>>, holds |-> {}]]
    /\ since = [a \in Addrs |-> "live"]
    /\ last = [op |-> "new"]

\* a handler called on a poisoned store panics at its first lock().unwrap()
\* of the clients or tables mutex and changes nothing
ClientUp(addr, client_data) ==
    /\ ~poisoned
    /\ clients' = (addr :> client_data) @@ clients
    /\ since' = [since EXCEPT ![addr] = "live"]
    /\ last' = [op |-> "client_up", addr |-> addr]
    /\ UNCHANGED <<sessions, tables, poisoned, caches, conn, stream, threads>>

\* what client_down does to the store
client_down(addr) ==
    /\ ~poisoned
    /\ clients' = Restrict(clients, DOMAIN clients \ {addr})
    /\ sessions' = Restrict(sessions, {k \in DOMAIN sessions : k.from_client # addr})
    /\ tables' = Restrict(tables, {k \in DOMAIN tables : ~tables_for_client_fn(addr, k)})
    /\ caches' = remove_expired(caches, tables')
    /\ since' = [since EXCEPT ![addr] = "down"]
    /\ UNCHANGED poisoned

ClientDown(addr) ==
    /\ client_down(addr)
    /\ last' = [op |-> "client_down", addr |-> addr,
                released |-> Referenced(Restrict(tables, DOMAIN tables \ DOMAIN tables'))]
    /\ UNCHANGED <<conn, stream, threads>>

SessionUp(sid, new_state) ==
    /\ sessions' = (sid :> new_state) @@ sessions
    /\ since' = Touch(sid.from_client)
    /\ last' = [op |-> "session_up", sid |-> sid]
    /\ UNCHANGED <<clients, tables, poisoned, caches, conn, stream, threads>>

\* what session_down does to the store; on a poisoned store the session
\* registry is updated before the tables lock panics
session_down(sid, new_state) ==
    /\ sessions' = IF new_state # None THEN (sid :> new_state[1]) @@ sessions
                   ELSE Restrict(sessions, DOMAIN sessions \ {sid})
    /\ tables' = IF poisoned THEN tables
                 ELSE Restrict(tables, {k \in DOMAIN tables : ~tables_for_session_fn(sid, k)})
    /\ caches' = IF poisoned THEN caches ELSE remove_expired(caches, tables')
    /\ since' = IF new_state # None THEN Touch(sid.from_client) ELSE since
    /\ UNCHANGED <<clients, poisoned>>

SessionDown(sid, new_state) ==
    /\ session_down(sid, new_state)
    /\ last' = [op |-> "session_down", sid |-> sid, new_state |-> new_state,
                outcome |-> IF poisoned THEN "panic" ELSE "ok",
                removed |-> DOMAIN tables \ DOMAIN tables',
                released |-> Referenced(Restrict(tables, DOMAIN tables \ DOMAIN tables'))]
    /\ UNCHANGED <<conn, stream, threads>>

UpdateRoute(path_id, net, table, route) ==
    /\ ~poisoned
    /\ tables' = [get_table(tables, table) EXCEPT
                    ![table] = TableUpdateRoute(@, path_id, net, route)]
    /\ WithinBounds(tables')
    /\ since' = [since EXCEPT ![client_addr(table)] = "live"]
    /\ last' = [op |-> "update_route", table |-> table, path_id |-> path_id, net |-> net,
                route |-> route]
    /\ caches' = caches \cup {route}
    /\ UNCHANGED <<clients, sessions, poisoned, conn, stream, threads>>

\* mutant: the withdraw ignores the path id and removes every path to net
WithdrawRoute_AllPaths(path_id, net, table) ==
    /\ ~poisoned
    /\ tables' = [get_table(tables, table) EXCEPT
                    ![table] = Restrict(@, {k \in DOMAIN @ : k[2] # net})]
    /\ WithinBounds(tables')
    /\ since' = [since EXCEPT ![client_addr(table)] = "live"]
    /\ last' = [op |-> "withdraw_route", table |-> table, path_id |-> path_id, net |-> net,
                present |-> table \in DOMAIN tables /\ <<path_id, net>> \in DOMAIN tables[table]]
    /\ UNCHANGED <<clients, sessions, poisoned, caches, conn, stream, threads>>

WithdrawRoute(path_id, net, table) ==
    /\ ~poisoned
    /\ tables' = [get_table(tables, table) EXCEPT
                    ![table] = TableWithdrawRoute(@, path_id, net)]
    /\ WithinBounds(tables')
    /\ since' = [since EXCEPT ![client_addr(table)] = "live"]
    /\ last' = [op |-> "withdraw_route", table |-> table, path_id |-> path_id, net |-> net,
                present |-> table \in DOMAIN tables /\ <<path_id, net>> \in DOMAIN tables[table]]
    /\ UNCHANGED <<clients, sessions, poisoned, caches, conn, stream, threads>>

GetRoutes(q) ==
    /\ ~poisoned
    /\ WithinBounds(TablesAfterSelect(tables, q))
    /\ IF IsKind(q, "Router") /\ RouterLookupPanics(tables, clients)
       THEN /\ poisoned' = TRUE
            /\ last' = [op |-> "get_routes", q |-> q, outcome |-> "panic", res |-> {}]
            /\ UNCHANGED <<tables, since>>
       ELSE /\ tables' = TablesAfterSelect(tables, q)
            /\ since' = IF IsKind(q, "Table")
                        THEN Touch(client_addr(q.table_query[1].arg)) ELSE since
            /\ IF RegexPanics(q)
               THEN last' = [op |-> "get_routes", q |-> q, outcome |-> "panic", res |-> {}]
               ELSE \E res \in GetRoutesResults(tables, clients, sessions, q) :
                      last' = [op |-> "get_routes", q |-> q, outcome |-> "ok", res |-> res]
            /\ UNCHANGED poisoned
    /\ UNCHANGED <<clients, sessions, caches, conn, stream, threads>>

Next ==
    \/ \E cu \in ClientUps : ClientUp(cu[1], cu[2])
    \/ \E addr \in Addrs : ClientDown(addr)
    \/ \E sid \in SessionIds : SessionUp(sid, Session)
    \/ \E sid \in SessionIds, new_state \in {None, Some(Session)} : SessionDown(sid, new_state)
    \/ \E path_id \in PathIds, net \in Nets, table \in Selectors, route \in AttrsSet :
            UpdateRoute(path_id, net, table, route)
    \/ \E path_id \in PathIds, net \in Nets, table \in Selectors :
            WithdrawRoute(path_id, net, table)
    \/ \E q \in Queries : GetRoutes(q)

Spec == Init /\ [][Next]_vars

(***************************************************************************)
(* Properties of the life cycle.                                           *)
(***************************************************************************)
\* the queries that reach the tables of addr
QueriesKeyedTo(addr) ==
    {Query(tq, nq, None, None, rd) :
        tq \in {None, Some(TableQueryClient(addr))}
               \cup {Some(TableQueryTable(k)) : k \in {x \in Selectors : client_addr(x) = addr}}
               \cup {Some(TableQuerySession(sid)) : sid \in {x \in {S1, S2, S3} : x.from_client = addr}}
               \cup {Some(TableQueryRouter(r)) : r \in {"r1", "r2"}},
        nq \in {OrLonger(Root4), Contains(Host)},
        rd \in RDs}

\* the results of a query that does not panic
ResultsOrNone(tbls, clts, sess, q) ==
    IF (IsKind(q, "Router") /\ RouterLookupPanics(tbls, clts)) \/ RegexPanics(q)
    THEN {}
    ELSE GetRoutesResults(tbls, clts, sess, q)

NothingLeftOf(addr) ==
    /\ addr \notin DOMAIN get_routers(clients)
    /\ \A sid \in DOMAIN sessions : sid.from_client # addr
    /\ \A k \in DOMAIN tables : client_addr(k) # addr
    /\ \A q \in QueriesKeyedTo(addr) :
         \A res \in ResultsOrNone(tables, clients, sessions, q) :
            \A r \in res : client_addr(r.table) # addr

C2_AsClaimed ==
    (last.op = "session_down" /\ last.outcome = "ok")
        => \A k \in DOMAIN tables : k.session_id # last.sid

\* C2 amended: session_down(sid, new_state) removes exactly the PrePolicyAdjIn
\* and PostPolicyAdjIn tables of sid, of every route distinguisher; the LocRib
\* tables and the tables of every other SessionId stay as they were.
C2_SessionTeardown ==
    [][(last'.op = "session_down" /\ last'.outcome = "ok") =>
        /\ \A k \in DOMAIN tables' :
              ~(k.session_id = last'.sid /\ k.table_type.kind \in {"PrePolicyAdjIn", "PostPolicyAdjIn"})
        /\ DOMAIN tables' \subseteq DOMAIN tables
        /\ \A k \in DOMAIN tables :
              (k.session_id # last'.sid \/ k.table_type.kind = "LocRib")
                  => (k \in DOMAIN tables' /\ tables'[k] = tables[k])]_vars

C2_Witness ==
    /\ last.op = "session_down" /\ last.outcome = "ok"
    /\ last.removed # {}
    /\ \E k \in DOMAIN tables : k.session_id = last.sid /\ k.table_type.kind = "LocRib"

\* C3: withdraw_route(path_id, net, table) on an entry that an update_route
\* put there leaves the table without (net, path_id) in an unfiltered read,
\* and every other entry of the table is still read.
C3_InsertThenWithdraw ==
    [][(last'.op = "withdraw_route" /\ last'.present) =>
        LET k == last'.table
            before == TableGetRoutes(tables[k], None)
            after == TableGetRoutes(tables'[k], None)
        IN /\ \A e \in after : ~(e.net = last'.net /\ e.path_id = last'.path_id)
           /\ \A e \in before :
                ~(e.net = last'.net /\ e.path_id = last'.path_id) => e \in after]_vars

C3_Witness ==
    /\ last.op = "withdraw_route" /\ last.present
    /\ DOMAIN tables[last.table] # {}

\* what the read operations of the store show
Observable(tbls, clts, sess) ==
    [routers |-> get_routers(clts),
     routing_instances |-> get_routing_instances(tbls),
     routes |-> [q \in {x \in Queries : ~IsKind(x, "Router")} |->
                    GetRoutesResults(tbls, clts, sess, q)]]

\* C4 as claimed: a withdraw_route of a (path_id, net) that is not present
\* changes nothing that get_routes, get_routers and get_routing_instances show.
C4_AsClaimed ==
    [][(last'.op = "withdraw_route" /\ ~last'.present) =>
        Observable(tables', clients', sessions') = Observable(tables, clients, sessions)]_vars

(***************************************************************************)
(* SpecNet: the four net queries on one table, over prefixes of both       *)
(* address families.                                                       *)
(***************************************************************************)
N24 == V4(<<10, 1, 2, 0>>, 24)
Other8 == V4(<<11, 0, 0, 0>>, 8)
N6x8 == V6(<<10, 0>>, 8)            \* a00::/8: the bits of 10.0.0.0/8
N6x16 == V6(<<10, 1>>, 16)          \* a01::/16
Host6 == V6(<<10, 1, 2, 3>>, 32)
Root6 == V6(<<0>>, 0)

NetPool == {N8, N16, N24, N6x8, N6x16}
NetQueryNets == {Root4, N8, N16, Host, Other8, N6x8, Host6, Root6}
NetQueries ==
    {Query(Some(TableQueryTable(T1)), nq, None, None, RdDefault) :
        nq \in UNION {{Contains(n), MostSpecific(n), Exact(n), OrLonger(n)} : n \in NetQueryNets}}

NextNet ==
    \/ ClientUp("a1", Client("rtr1", "r1"))
    \/ \E path_id \in PathIds, net \in NetPool : UpdateRoute(path_id, net, T1, AttrsA)
    \/ \E q \in NetQueries : GetRoutes(q)

SpecNet == Init /\ [][NextNet]_vars

\* p covers n: same family, and every bit of p's network part is n's bit
Covers(p, n) ==
    /\ p.fam = n.fam
    /\ Len(p.bits) <= Len(n.bits)
    /\ \A i \in 1..Len(p.bits) : p.bits[i] = n.bits[i]

\* C5: with a registered client and no limit reached, a query on one table
\* returns exactly: Contains(net) the entries whose prefix covers net;
\* MostSpecific(net) the entries of the longest stored prefix covering net;
\* Exact(net) the entries of net itself; OrLonger(net) the entries net covers;
\* and never an entry of the other address family.
C5_NetQueryModes ==
    (last.op = "get_routes" /\ last.outcome = "ok" /\ IsKind(last.q, "Table")
        /\ client_addr(last.q.table_query[1].arg) \in DOMAIN clients
        /\ last.q.limits = None /\ last.q.as_path_regex = None
        /\ last.q.route_distinguisher = last.q.table_query[1].arg.route_distinguisher)
    => LET stored == DOMAIN tables[last.q.table_query[1].arg]
           net == last.q.net_query.net
           mode == last.q.net_query.mode
           got == {<<r.path_id, r.net>> : r \in last.res}
           covering == {k \in stored : Covers(k[2], net)}
       IN /\ mode = "Contains" => got = covering
          /\ mode = "MostSpecific" =>
                got = {k \in covering : \A o \in covering : Len(o[2].bits) <= Len(k[2].bits)}
          /\ mode = "Exact" => got = {k \in stored : k[2] = net}
          /\ mode = "OrLonger" => got = {k \in stored : Covers(net, k[2])}
          /\ \A r \in last.res : r.net.fam = net.fam

\* the example of the claim: 10.0.0.0/8 and 10.1.0.0/16 stored,
\* MostSpecific(10.1.2.3/32) returns 10.1.0.0/16 alone
C5_Witness ==
    /\ last.op = "get_routes" /\ last.outcome = "ok"
    /\ "a1" \in DOMAIN clients
    /\ T1 \in DOMAIN tables /\ StoredNets(tables[T1]) = {N8, N16}
    /\ last.q.net_query = MostSpecific(Host)
    /\ {r.net : r \in last.res} = {N16}

(***************************************************************************)
(* SpecQuery: get_routes over tables of two clients and two route          *)
(* distinguishers, with limits and AS-path filters.                        *)
(***************************************************************************)
QuerySelectors == {T1, T4, T6}
QueryNets == {N8, N16}
QueryAttrs == {AttrsA, AttrsB}
QueryClientUps == {<<"a1", Client("rtr1", "r1")>>, <<"a2", Client("rtr2", "r1")>>,
                   <<"a2", Client("rtr2", "r2")>>}

Pat65001 == <<"6", "5", "0", "0", "1">>
PatJoin == <<"1", " ", "6">>            \* spans the space between two AS numbers
Pat9 == <<"9">>
PatInvalid == <<"(">>

TableQueries ==
    {None, Some(TableQueryTable(T1)), Some(TableQueryTable(T4)),
     Some(TableQueryClient("a1")), Some(TableQueryRouter("r1")),
     Some(TableQuerySession(S1))}

QueriesOfSpecQuery ==
    {Query(tq, OrLonger(Root4), None, None, rd) : tq \in TableQueries, rd \in RDs}
    \cup {Query(tq, OrLonger(Root4), Some(limits), None, RdDefault) :
            tq \in {None, Some(TableQueryTable(T1))},
            limits \in {QueryLimits(0, 0), QueryLimits(1, 0), QueryLimits(0, 1),
                        QueryLimits(1, 2)}}
    \cup {Query(None, OrLonger(Root4), None, Some(re), RdDefault) :
            re \in {Pat65001, PatJoin, Pat9, PatInvalid}}
    \cup {Query(Some(TableQueryTable(T1)), OrLonger(Root4), None, Some(PatInvalid), RdDefault)}
    \cup {Query(None, Contains(Host), Some(QueryLimits(1, 0)), Some(Pat65001), RdDefault)}

NextQuery ==
    \/ \E cu \in QueryClientUps : ClientUp(cu[1], cu[2])
    \/ ClientDown("a1")
    \/ SessionUp(S1, Session)
    \/ \E net \in QueryNets, table \in QuerySelectors, route \in QueryAttrs :
            UpdateRoute(0, net, table, route)
    \/ \E q \in QueriesOfSpecQuery : GetRoutes(q)

SpecQuery == Init /\ [][NextQuery]_vars

\* C6: every result of get_routes(query) comes from a table whose route
\* distinguisher is query.route_distinguisher, whatever the table_query; an
\* explicit Table selector of another route distinguisher yields nothing.
C6_RouteDistinguisherFilter ==
    (last.op = "get_routes" /\ last.outcome = "ok") =>
        /\ \A r \in last.res :
              r.table.route_distinguisher = last.q.route_distinguisher
        /\ (IsKind(last.q, "Table")
            /\ last.q.table_query[1].arg.route_distinguisher # last.q.route_distinguisher)
                => last.res = {}

C6_Witness ==
    /\ last.op = "get_routes" /\ last.outcome = "ok"
    /\ IsKind(last.q, "Table")
    /\ last.q.table_query[1].arg.route_distinguisher # last.q.route_distinguisher
    /\ DOMAIN tables[last.q.table_query[1].arg] # {}
    /\ client_addr(last.q.table_query[1].arg) \in DOMAIN clients
    /\ last.res = {}

\* the entries of table k that query q matches
MatchingEntries(q, k) ==
    {[table |-> k, net |-> x[2], path_id |-> x[1]] :
        x \in {y \in TableMatchingKeys(tables[k], Some(q.net_query)) :
                nets_filter_fn(q.as_path_regex, tables[k][y])}}

\* the matching entries of the candidate tables that have a registered client
ExpectedEntries(q) ==
    UNION {MatchingEntries(q, k) :
            k \in {x \in Candidates(tables, clients, q) : client_addr(x) \in DOMAIN clients}}

ResultEntries(res) ==
    {[table |-> r.table, net |-> r.net, path_id |-> r.path_id] : r \in res}

\* the limits as the claim states them: <<bounded, bound>>
ClaimedPerTable(q) ==
    IF q.limits = None THEN <<TRUE, 200>>
    ELSE IF q.limits[1].max_results_per_table = 0 THEN <<FALSE, 0>>
    ELSE <<TRUE, q.limits[1].max_results_per_table>>

ClaimedOverall(q) ==
    IF q.limits = None THEN <<TRUE, 500>>
    ELSE IF q.limits[1].max_results = 0 THEN <<FALSE, 0>>
    ELSE <<TRUE, q.limits[1].max_results>>

\* C7: get_routes yields at most max_results results and at most
\* max_results_per_table of one table (200 and 500 when limits is omitted, no
\* bound for a supplied 0); when neither bound is reached, every matching
\* entry of a candidate table with a registered client is yielded.
C7_Limits ==
    (last.op = "get_routes" /\ last.outcome = "ok") =>
        LET q == last.q
            per == ClaimedPerTable(q)
            all == ClaimedOverall(q)
            count(k) == Cardinality({r \in last.res : r.table = k})
        IN /\ all[1] => Cardinality(last.res) <= all[2]
           /\ per[1] => \A k \in DOMAIN tables : count(k) <= per[2]
           /\ ResultEntries(last.res) \subseteq ExpectedEntries(q)
           /\ ((all[1] => Cardinality(last.res) < all[2])
               /\ (per[1] => \A k \in DOMAIN tables : count(k) < per[2]))
                 => ResultEntries(last.res) = ExpectedEntries(q)

C7_Witness ==
    /\ last.op = "get_routes" /\ last.outcome = "ok"
    /\ last.q.limits = Some(QueryLimits(1, 0))
    /\ Cardinality(last.res) = 1
    /\ Cardinality(ExpectedEntries(last.q)) = 2

\* C8 as claimed: with a table in the map whose client is not registered,
\* get_routes completes for every table_query kind, yields no entry of such a
\* table and, no limit being reached, every entry of the other candidates.
C8_AsClaimed ==
    (/\ last.op = "get_routes"
     /\ ~RegexPanics(last.q)
     /\ \E k \in DOMAIN tables : client_addr(k) \notin DOMAIN clients)
    => /\ last.outcome = "ok"
       /\ \A r \in last.res : client_addr(r.table) \in DOMAIN clients
       /\ last.q.limits = None => ResultEntries(last.res) = ExpectedEntries(last.q)

\* C9 as claimed: an as_path_regex that does not compile is answered with an
\* error, not a panic, and leaves the clients, sessions and tables as they were.
C9_AsClaimed ==
    [][(last'.op = "get_routes" /\ RegexPanics(last'.q)) =>
        /\ last'.outcome = "rejected"
        /\ <<clients', sessions', tables'>> = <<clients, sessions, tables>>]_vars

(***************************************************************************)
(* Store::insert_bgp_update: a decoded BGP UPDATE becomes update_route and *)
(* withdraw_route calls.  A BgpAddrs value is [family, addrs]; a wire       *)
(* route distinguisher is the four 16-bit halves <<h1, h2, l1, l2>> of      *)
(* (rdh, rdl).  Ipv4Net::new keeps the host bits of the address it is      *)
(* given; the model's prefixes carry the network bits alone.               *)
(***************************************************************************)
\* the decoding, were the all-zero value read by its type tag like any other
RdFromWire_NoDefault(w) ==
    CASE w[1] = 0 -> <<"Ok", [t |-> "Type0", a |-> <<0, w[2]>>, v |-> <<w[3], w[4]>>]>>
      [] w[1] = 1 -> <<"Ok", RdType1(<<w[2], w[3]>>, w[4])>>
      [] w[1] = 2 -> <<"Ok", RdType2(<<w[2], w[3]>>, w[4])>>
      [] OTHER -> <<"Err", w[1]>>

\* TryFrom<BgpRD>: Ok as <<"Ok", rd>>, Err as <<"Err", tag>>
RdFromWire(w) ==
    IF w = <<0, 0, 0, 0>> THEN <<"Ok", RdDefault>>
    ELSE CASE w[1] = 0 -> <<"Ok", [t |-> "Type0", a |-> <<0, w[2]>>, v |-> <<w[3], w[4]>>]>>
           [] w[1] = 1 -> <<"Ok", RdType1(<<w[2], w[3]>>, w[4])>>
           [] w[1] = 2 -> <<"Ok", RdType2(<<w[2], w[3]>>, w[4])>>
           [] OTHER -> <<"Err", w[1]>>

bgpv4addr_to_ipnet(addr) ==
    IF addr.prefixlen > 32 THEN None ELSE Some(V4(addr.addr, addr.prefixlen))

bgpv6addr_to_ipnet(addr) ==
    IF addr.prefixlen > 128 THEN None ELSE Some(V6(addr.addr, addr.prefixlen))

\* one NLRI entry of the given family: None when it is skipped, else
\* Some(<<route distinguisher, path id, net>>)
AddrToNet(family, item) ==
    CASE family = "IPV4UP" ->
            LET n == bgpv4addr_to_ipnet(item.nlri) IN
            IF n = None THEN None ELSE Some(<<RdDefault, item.pathid, n[1]>>)
      [] family = "IPV6UP" ->
            LET n == bgpv6addr_to_ipnet(item.nlri) IN
            IF n = None THEN None ELSE Some(<<RdDefault, item.pathid, n[1]>>)
      [] family = "IPV4U" ->
            LET n == bgpv4addr_to_ipnet(item) IN
            IF n = None THEN None ELSE Some(<<RdDefault, 0, n[1]>>)
      [] family = "IPV6U" ->
            LET n == bgpv6addr_to_ipnet(item) IN
            IF n = None THEN None ELSE Some(<<RdDefault, 0, n[1]>>)
      [] family = "VPNV4U" ->
            LET rd == RdFromWire(item.rd)
                n == bgpv4addr_to_ipnet(item.prefix) IN
            IF rd[1] = "Err" \/ n = None THEN None ELSE Some(<<rd[2], 0, n[1]>>)
      [] family = "VPNV6U" ->
            LET rd == RdFromWire(item.rd)
                n == bgpv6addr_to_ipnet(item.prefix) IN
            IF rd[1] = "Err" \/ n = None THEN None ELSE Some(<<rd[2], 0, n[1]>>)
      [] OTHER -> None

RECURSIVE FilterMapNets(_, _)
FilterMapNets(family, items) ==
    IF items = <<>> THEN <<>>
    ELSE AddrToNet(family, Head(items)) \o FilterMapNets(family, Tail(items))

\* the conversion, were one invalid entry to void its whole list
bgp_addrs_to_nets_AllOrNothing(addrs) ==
    IF addrs.family \in {"IPV4UP", "IPV6UP", "IPV4U", "IPV6U", "VPNV4U", "VPNV6U"}
       /\ \A i \in 1..Len(addrs.addrs) : AddrToNet(addrs.family, addrs.addrs[i]) # None
    THEN FilterMapNets(addrs.family, addrs.addrs)
    ELSE <<>>

bgp_addrs_to_nets(addrs) ==
    IF addrs.family \in {"IPV4UP", "IPV6UP", "IPV4U", "IPV6U", "VPNV4U", "VPNV6U"}
    THEN FilterMapNets(addrs.family, addrs.addrs)
    ELSE <<>>

NoAddrs == [family |-> "None", addrs |-> <<>>]

\* the loop over update.attrs; acc = [attrs, nexthop, update_nets, withdraw_nets]
RECURSIVE WalkAttrs(_, _)
WalkAttrs(items, acc) ==
    IF items = <<>> THEN acc
    ELSE LET attr == Head(items)
             next ==
               CASE attr.kind = "MPUpdates" ->
                      LET nexthop == IF attr.nexthop.kind \in {"V4", "V6"}
                                     THEN Some(attr.nexthop.addr) ELSE None
                          nets == bgp_addrs_to_nets(attr.addrs)
                      IN [acc EXCEPT !.update_nets =
                            @ \o [i \in 1..Len(nets) |-> <<nets[i], nexthop>>]]
                 [] attr.kind = "MPWithdraws" ->
                      [acc EXCEPT !.withdraw_nets = @ \o bgp_addrs_to_nets(attr.addrs)]
                 [] attr.kind = "NextHop" -> [acc EXCEPT !.nexthop = Some(attr.value)]
                 [] attr.kind = "CommunityList" ->
                      [acc EXCEPT !.attrs.communities =
                         Some([i \in 1..Len(attr.value) |->
                                <<attr.value[i] \div 65536, attr.value[i] % 65536>>])]
                 [] attr.kind = "MED" -> [acc EXCEPT !.attrs.med = Some(attr.value)]
                 [] attr.kind = "LocalPref" ->
                      [acc EXCEPT !.attrs.local_pref = Some(attr.value)]
                 [] attr.kind = "Origin" -> [acc EXCEPT !.attrs.origin = Some(attr.value)]
                 [] attr.kind = "ASPath" -> [acc EXCEPT !.attrs.as_path = Some(attr.value)]
                 [] attr.kind = "LargeCommunityList" ->
                      [acc EXCEPT !.attrs.large_communities = Some(attr.value)]
                 [] OTHER -> acc
         IN WalkAttrs(Tail(items), next)

\* the calls, were every entry filed under the session's own route distinguisher
StoreCalls_SessionRd(session, update) ==
    LET walked == WalkAttrs(update.attrs,
                    [attrs |-> DefaultRouteAttrs, nexthop |-> None,
                     update_nets |-> <<>>, withdraw_nets |-> <<>>])
        legacy == bgp_addrs_to_nets(update.updates)
        update_nets == walked.update_nets
                        \o [i \in 1..Len(legacy) |-> <<legacy[i], walked.nexthop>>]
        withdraw_nets == walked.withdraw_nets \o bgp_addrs_to_nets(update.withdraws)
    IN [i \in 1..Len(update_nets) |->
          <<"update", update_nets[i][1][2], update_nets[i][1][3], session,
            [walked.attrs EXCEPT !.nexthop = update_nets[i][2]]>>]
       \o [i \in 1..Len(withdraw_nets) |->
          <<"withdraw", withdraw_nets[i][2], withdraw_nets[i][3], session>>]

\* the calls, were every route stored with the message's NextHop when it has one
StoreCalls_MessageHop(session, update) ==
    LET walked == WalkAttrs(update.attrs,
                    [attrs |-> DefaultRouteAttrs, nexthop |-> None,
                     update_nets |-> <<>>, withdraw_nets |-> <<>>])
        legacy == bgp_addrs_to_nets(update.updates)
        update_nets == walked.update_nets
                        \o [i \in 1..Len(legacy) |-> <<legacy[i], walked.nexthop>>]
        withdraw_nets == walked.withdraw_nets \o bgp_addrs_to_nets(update.withdraws)
        target(rd) == [session EXCEPT !.route_distinguisher =
                         IF is_default(rd) THEN session.route_distinguisher ELSE rd]
    IN [i \in 1..Len(update_nets) |->
          <<"update", update_nets[i][1][2], update_nets[i][1][3],
            target(update_nets[i][1][1]),
            [walked.attrs EXCEPT !.nexthop = IF walked.nexthop # None THEN walked.nexthop
                                             ELSE update_nets[i][2]]>>]
       \o [i \in 1..Len(withdraw_nets) |->
          <<"withdraw", withdraw_nets[i][2], withdraw_nets[i][3],
            target(withdraw_nets[i][1])>>]

\* the calls, were the withdrawals made before the updates
StoreCalls_WithdrawFirst(session, update) ==
    LET walked == WalkAttrs(update.attrs,
                    [attrs |-> DefaultRouteAttrs, nexthop |-> None,
                     update_nets |-> <<>>, withdraw_nets |-> <<>>])
        legacy == bgp_addrs_to_nets(update.updates)
        update_nets == walked.update_nets
                        \o [i \in 1..Len(legacy) |-> <<legacy[i], walked.nexthop>>]
        withdraw_nets == walked.withdraw_nets \o bgp_addrs_to_nets(update.withdraws)
        target(rd) == [session EXCEPT !.route_distinguisher =
                         IF is_default(rd) THEN session.route_distinguisher ELSE rd]
    IN [i \in 1..Len(withdraw_nets) |->
          <<"withdraw", withdraw_nets[i][2], withdraw_nets[i][3],
            target(withdraw_nets[i][1])>>]
       \o [i \in 1..Len(update_nets) |->
          <<"update", update_nets[i][1][2], update_nets[i][1][3],
            target(update_nets[i][1][1]),
            [walked.attrs EXCEPT !.nexthop = update_nets[i][2]]>>]

\* the store calls of insert_bgp_update(session, update), in order:
\* <<"update", path, prefix, selector, attrs>> or <<"withdraw", path, prefix, selector>>
StoreCalls(session, update) ==
    LET walked == WalkAttrs(update.attrs,
                    [attrs |-> DefaultRouteAttrs, nexthop |-> None,
                     update_nets |-> <<>>, withdraw_nets |-> <<>>])
        legacy == bgp_addrs_to_nets(update.updates)
        update_nets == walked.update_nets
                        \o [i \in 1..Len(legacy) |-> <<legacy[i], walked.nexthop>>]
        withdraw_nets == walked.withdraw_nets \o bgp_addrs_to_nets(update.withdraws)
        target(rd) == [session EXCEPT !.route_distinguisher =
                         IF is_default(rd) THEN session.route_distinguisher ELSE rd]
    IN [i \in 1..Len(update_nets) |->
          <<"update", update_nets[i][1][2], update_nets[i][1][3],
            target(update_nets[i][1][1]),
            [walked.attrs EXCEPT !.nexthop = update_nets[i][2]]>>]
       \o [i \in 1..Len(withdraw_nets) |->
          <<"withdraw", withdraw_nets[i][2], withdraw_nets[i][3],
            target(withdraw_nets[i][1])>>]

\* the table map after the store calls, each an update_route or withdraw_route
RECURSIVE ApplyCalls(_, _)
ApplyCalls(tbls, calls) ==
    IF calls = <<>> THEN tbls
    ELSE LET c == Head(calls)
             t1 == get_table(tbls, c[4])
         IN ApplyCalls(
              [t1 EXCEPT ![c[4]] =
                 IF c[1] = "update" THEN TableUpdateRoute(@, c[2], c[3], c[5])
                 ELSE TableWithdrawRoute(@, c[2], c[3])],
              Tail(calls))

\* the attribute sets the update_route calls intern
Interned(calls) == {calls[i][5] : i \in {j \in 1..Len(calls) : calls[j][1] = "update"}}

RECURSIVE Revive(_, _)
Revive(sn, calls) ==
    IF calls = <<>> THEN sn
    ELSE Revive([sn EXCEPT ![client_addr(Head(calls)[4])] = "live"], Tail(calls))

(***************************************************************************)
(* The BMP ingestion session (bmp_collector.rs).  Its Table handle is the  *)
(* store: insert_bgp_update is Store::insert_bgp_update.                   *)
(***************************************************************************)
\* peer.flags.view_bits::<Msb0>()[7]: the last bit in most-significant-first order
FlagBit7(flags) == flags % 2 = 1

PeerHeader(peertype, flags, peeraddress) ==
    [peertype |-> peertype, flags |-> flags, peeraddress |-> peeraddress]

\* the route state of a LocRib table is not set in bmp_collector.rs
LocRibRouteState == "Selected"

table_selector_for_peer(addr, peer) ==
    CASE peer.peertype = 0 /\ ~FlagBit7(peer.flags) ->
            Some(TableSelector(RdDefault, SessionId(addr, peer.peeraddress), PrePolicyAdjIn))
      [] peer.peertype = 0 /\ FlagBit7(peer.flags) ->
            Some(TableSelector(RdDefault, SessionId(addr, peer.peeraddress), PostPolicyAdjIn))
      [] peer.peertype = 3 ->
            Some(TableSelector(RdDefault, SessionId(addr, peer.peeraddress),
                               LocRib(LocRibRouteState)))
      [] OTHER -> None

\* process_route_monitoring, the calls of insert_bgp_update made one after
\* the other
RouteMonitoring(addr, peer, update) ==
    /\ ~poisoned
    /\ LET session == table_selector_for_peer(addr, peer) IN
       IF session = None
       THEN /\ last' = [op |-> "route_monitoring", addr |-> addr, peer |-> peer,
                        update |-> update, dropped |-> TRUE]
            /\ UNCHANGED <<tables, caches, since>>
       ELSE LET calls == StoreCalls(session[1], update) IN
            /\ tables' = ApplyCalls(tables, calls)
            /\ WithinBounds(tables')
            /\ caches' = caches \cup Interned(calls)
            /\ since' = Revive(since, calls)
            /\ last' = [op |-> "route_monitoring", addr |-> addr, peer |-> peer,
                        update |-> update, dropped |-> FALSE]
    /\ UNCHANGED <<clients, sessions, poisoned, conn, stream, threads>>

(***************************************************************************)
(* The ingestion session against the store: the messages of one BMP        *)
(* connection, the registration of its client, and queries.                *)
(***************************************************************************)
A8 == [addr |-> <<10, 0, 0, 0>>, prefixlen |-> 8]
A16 == [addr |-> <<10, 1, 0, 0>>, prefixlen |-> 16]
A33 == [addr |-> <<10, 1, 0, 0>>, prefixlen |-> 33]
PathA == [kind |-> "ASPath", value |-> <<65001, 65002>>]
HopA == [kind |-> "NextHop", value |-> "nh1"]
Update(attrs, updates, withdraws) ==
    [attrs |-> attrs, updates |-> updates, withdraws |-> withdraws]

BmpUpdates ==
    << Update(<<PathA, HopA>>, [family |-> "IPV4U", addrs |-> <<A8>>], NoAddrs),
      Update(<<HopA, PathA>>, [family |-> "IPV4U", addrs |-> <<A33, A16>>], NoAddrs),
      Update(<<>>, NoAddrs, [family |-> "IPV4U", addrs |-> <<A8>>]),
      Update(<<PathA>>, [family |-> "IPV4U", addrs |-> <<A8>>],
             [family |-> "IPV4U", addrs |-> <<A8>>]),
      Update(<<PathA, [kind |-> "MPUpdates", nexthop |-> [kind |-> "V4", addr |-> "nh2"],
                       addrs |-> [family |-> "VPNV4U",
                                  addrs |-> <<[rd |-> <<0, 100, 0, 1>>, prefix |-> A8]>>]]>>,
             NoAddrs, NoAddrs) >>

BmpPeers ==
    { PeerHeader(0, 0, "p1"), PeerHeader(0, 1, "p1"), PeerHeader(0, 64, "p1"),
      PeerHeader(3, 0, "p1"), PeerHeader(1, 0, "p1") }

BmpQueries ==
    { Query(Some(TableQueryTable(T1)), Exact(N8), None, None, RdDefault),
      Query(None, OrLonger(Root4), None, None, RdDefault),
      Query(None, OrLonger(Root4), None, None, RdA) }

NextBmp ==
    \/ ClientUp("a1", Client("rtr1", "r1"))
    \/ \E peer \in BmpPeers, i \in DOMAIN BmpUpdates :
            RouteMonitoring("a1", peer, BmpUpdates[i])
    \/ \E q \in BmpQueries : GetRoutes(q)

SpecBmp == Init /\ [][NextBmp]_vars

\* the prefixes a message announces as plain IPv4 unicast and does not
\* withdraw again
AnnouncedV4(update) ==
    IF update.updates.family # "IPV4U" THEN {}
    ELSE {update.updates.addrs[i] : i \in 1..Len(update.updates.addrs)}
         \ (IF update.withdraws.family # "IPV4U" THEN {}
            ELSE {update.withdraws.addrs[i] : i \in 1..Len(update.withdraws.addrs)})

AsPathsOf(update) ==
    {update.attrs[i].value : i \in {j \in 1..Len(update.attrs) : update.attrs[j].kind = "ASPath"}}

\* a query by exact prefix on the pre-policy table of the message's peer
\* returns the announced prefix as Seen with the message's AS path
SeenInPrePolicy(addr, peer, update) ==
    \A a \in {x \in AnnouncedV4(update) : x.prefixlen <= 32}, path \in AsPathsOf(update) :
        \A res \in GetRoutesResults(tables, clients, sessions,
                     Query(Some(TableQueryTable(
                             TableSelector(RdDefault, SessionId(addr, peer.peeraddress),
                                           PrePolicyAdjIn))),
                           Exact(V4(a.addr, a.prefixlen)), None, None, RdDefault)) :
            \E r \in res : /\ r.net = V4(a.addr, a.prefixlen)
                           /\ r.state = "Seen"
                           /\ r.attrs.as_path = Some(path)

\* C10: after the ingestion session has processed a RouteMonitoring message
\* of a peer of type 0 with the post-policy flag unset that announces IPv4
\* unicast prefix P with AS path A, get_routes with Exact(P) on the
\* PrePolicyAdjIn table of that client and peer yields P, Seen, AS path A.
C10_AsClaimed ==
    (last.op = "route_monitoring" /\ last.peer.peertype = 0 /\ ~FlagBit7(last.peer.flags))
        => SeenInPrePolicy(last.addr, last.peer, last.update)

\* the same, once a Client is registered for the connection's address
C10_OnceRegistered ==
    (/\ last.op = "route_monitoring" /\ last.peer.peertype = 0
     /\ ~FlagBit7(last.peer.flags) /\ last.addr \in DOMAIN clients)
        => SeenInPrePolicy(last.addr, last.peer, last.update)

C10_RegisteredWitness ==
    /\ last.op = "route_monitoring" /\ last.peer.peertype = 0
    /\ ~FlagBit7(last.peer.flags) /\ last.addr \in DOMAIN clients
    /\ AnnouncedV4(last.update) # {} /\ AsPathsOf(last.update) # {}

(***************************************************************************)
(* Store::insert_bgp_update called on the store directly, with selectors   *)
(* of either route distinguisher and messages that mix address families,   *)
(* valid and invalid entries.                                              *)
(***************************************************************************)
InsertBgpUpdate(session, update) ==
    /\ ~poisoned
    /\ LET calls == StoreCalls(session, update) IN
       /\ tables' = ApplyCalls(tables, calls)
       /\ WithinBounds(tables')
       /\ caches' = caches \cup Interned(calls)
       /\ since' = Revive(since, calls)
       /\ last' = [op |-> "insert_bgp_update", session |-> session,
                   update |-> update, calls |-> calls]
    /\ UNCHANGED <<clients, sessions, poisoned, conn, stream, threads>>

RdB == RdType0(200, 2)
T7 == TableSelector(RdB, S1, PostPolicyAdjIn)
A6x16 == [addr |-> <<10, 1>>, prefixlen |-> 16]
A6x129 == [addr |-> <<10, 1>>, prefixlen |-> 129]
WireA == <<0, 100, 0, 1>>          \* 100:1
WireUnknown == <<3, 100, 0, 1>>    \* type tag 3
WireDefault == <<0, 0, 0, 0>>
HopMp == [kind |-> "V4", addr |-> "nh2"]
MpUpdates(family, addrs) ==
    [kind |-> "MPUpdates", nexthop |-> HopMp, addrs |-> [family |-> family, addrs |-> addrs]]
MpWithdraws(family, addrs) ==
    [kind |-> "MPWithdraws", addrs |-> [family |-> family, addrs |-> addrs]]

UpdatePool ==
    << Update(<<PathA, HopA, MpUpdates("VPNV4U", <<[rd |-> WireA, prefix |-> A8]>>)>>,
              [family |-> "IPV4U", addrs |-> <<A16>>], NoAddrs),
       Update(<<PathA>>, [family |-> "IPV4U", addrs |-> <<A33, A16>>],
              [family |-> "IPV4U", addrs |-> <<A8>>]),
       Update(<<MpUpdates("VPNV4U", <<[rd |-> WireUnknown, prefix |-> A8],
                                      [rd |-> WireA, prefix |-> A16]>>),
                MpWithdraws("VPNV4U", <<[rd |-> WireDefault, prefix |-> A8]>>)>>,
              NoAddrs, NoAddrs),
       Update(<<MpUpdates("L2VPLS", <<A8>>), HopA>>,
              [family |-> "IPV4U", addrs |-> <<A8>>], NoAddrs),
       Update(<<MpUpdates("IPV6U", <<A6x129, A6x16>>)>>,
              [family |-> "IPV4UP", addrs |-> <<[pathid |-> 1, nlri |-> A8]>>], NoAddrs),
       Update(<<MpWithdraws("VPNV6U", <<[rd |-> WireA, prefix |-> A6x16]>>)>>,
              NoAddrs, [family |-> "IPV4UP", addrs |-> <<[pathid |-> 1, nlri |-> A8]>>]) >>

UpdateSelectors == {T1, T7}

UpdateQueries ==
    { Query(None, OrLonger(Root4), None, None, rd) : rd \in {RdDefault, RdA, RdB} }

NextUpdate ==
    \/ ClientUp("a1", Client("rtr1", "r1"))
    \/ \E session \in UpdateSelectors, i \in DOMAIN UpdatePool :
            InsertBgpUpdate(session, UpdatePool[i])
    \/ \E q \in UpdateQueries : GetRoutes(q)

SpecUpdate == Init /\ [][NextUpdate]_vars

\* The NLRI lists of a message: 0 is update.updates, -1 is update.withdraws,
\* i >= 1 is the list of the MPUpdates or MPWithdraws attribute at position i.
ListIds(update) ==
    {0, -1} \cup {i \in 1..Len(update.attrs) :
                    update.attrs[i].kind \in {"MPUpdates", "MPWithdraws"}}
ListOf(update, j) ==
    IF j = 0 THEN update.updates ELSE IF j = -1 THEN update.withdraws
    ELSE update.attrs[j].addrs
KindOf(update, j) ==
    IF j = 0 THEN "update" ELSE IF j = -1 THEN "withdraw"
    ELSE IF update.attrs[j].kind = "MPUpdates" THEN "update" ELSE "withdraw"
EntryIds(update) ==
    UNION {{<<j, n>> : n \in 1..Len(ListOf(update, j).addrs)} : j \in ListIds(update)}
FamilyOf(update, e) == ListOf(update, e[1]).family
ItemOf(update, e) == ListOf(update, e[1]).addrs[e[2]]
IsVpn(family) == family \in {"VPNV4U", "VPNV6U"}
IsV6(family) == family \in {"IPV6U", "IPV6UP", "VPNV6U"}
Supported(family) ==
    family \in {"IPV4U", "IPV4UP", "IPV6U", "IPV6UP", "VPNV4U", "VPNV6U"}
PrefixOf(update, e) ==
    LET f == FamilyOf(update, e) it == ItemOf(update, e) IN
    IF IsVpn(f) THEN it.prefix ELSE IF f \in {"IPV4UP", "IPV6UP"} THEN it.nlri ELSE it
PathOf(update, e) ==
    IF FamilyOf(update, e) \in {"IPV4UP", "IPV6UP"} THEN ItemOf(update, e).pathid ELSE 0
\* the entry can be converted: a supported family, a prefix length within the
\* family's address width, and for a VPN entry a known type tag
Convertible(update, e) ==
    LET f == FamilyOf(update, e) IN
    /\ Supported(f)
    /\ PrefixOf(update, e).prefixlen <= (IF IsV6(f) THEN 128 ELSE 32)
    /\ IsVpn(f) => ItemOf(update, e).rd[1] \in {0, 1, 2}
NetOf(update, e) ==
    LET a == PrefixOf(update, e) IN
    IF IsV6(FamilyOf(update, e)) THEN V6(a.addr, a.prefixlen) ELSE V4(a.addr, a.prefixlen)
OwnRd(update, e) ==
    IF IsVpn(FamilyOf(update, e)) THEN RdFromWire(ItemOf(update, e).rd)[2] ELSE RdDefault
ExpectedTarget(sel, update, e) ==
    TableSelector(IF OwnRd(update, e) = RdDefault THEN sel.route_distinguisher
                  ELSE OwnRd(update, e),
                  sel.session_id, sel.table_type)
CallIsFor(c, sel, update, e) ==
    /\ c[1] = KindOf(update, e[1])
    /\ c[2] = PathOf(update, e)
    /\ c[3] = NetOf(update, e)
    /\ c[4] = ExpectedTarget(sel, update, e)

\* C11: every update and withdrawal that insert_bgp_update(sel, update)
\* forwards goes to a selector with sel's session_id and table_type, whose
\* route distinguisher is the NLRI's own when that is not Default and
\* sel.route_distinguisher otherwise.
C11_TargetSelector ==
    last.op = "insert_bgp_update" =>
        LET sel == last.session update == last.update IN
        /\ \A i \in 1..Len(last.calls) :
              /\ last.calls[i][4].session_id = sel.session_id
              /\ last.calls[i][4].table_type = sel.table_type
              /\ \E e \in EntryIds(update) :
                    Convertible(update, e) /\ CallIsFor(last.calls[i], sel, update, e)
        /\ \A e \in EntryIds(update) :
              Convertible(update, e) =>
                 \E i \in 1..Len(last.calls) : CallIsFor(last.calls[i], sel, update, e)

\* a VPN NLRI carrying 100:1, inserted through a selector of the Default
\* route distinguisher, is stored under Type0{asn: 100, value: 1}
C11_Witness ==
    /\ last.op = "insert_bgp_update"
    /\ last.session.route_distinguisher = RdDefault
    /\ \E i \in 1..Len(last.calls) :
          /\ last.calls[i][1] = "update"
          /\ last.calls[i][4] = TableSelector(RdType0(100, 1), S1, PrePolicyAdjIn)
          /\ last.calls[i][4] \in DOMAIN tables
          /\ <<0, last.calls[i][3]>> \in DOMAIN tables[last.calls[i][4]]
    /\ \E i \in 1..Len(last.calls) : last.calls[i][4] = last.session

\* an update entry that no withdrawal of the same message takes back
Withdrawn(sel, update, e) ==
    \E w \in EntryIds(update) :
        /\ Convertible(update, w) /\ KindOf(update, w[1]) = "withdraw"
        /\ PathOf(update, w) = PathOf(update, e) /\ NetOf(update, w) = NetOf(update, e)
        /\ ExpectedTarget(sel, update, w) = ExpectedTarget(sel, update, e)

\* C12: an entry that cannot be converted is skipped alone: the calls made
\* are exactly one per convertible entry of the message, whatever list or
\* family the invalid entry sits in, and every announced entry that is not
\* withdrawn by the same message is in its table afterwards; an unsupported
\* family yields no call.
C12_SkipAlone ==
    last.op = "insert_bgp_update" =>
        LET sel == last.session update == last.update IN
        /\ Len(last.calls) = Cardinality({e \in EntryIds(update) : Convertible(update, e)})
        /\ \A e \in EntryIds(update) :
              (Convertible(update, e) /\ KindOf(update, e[1]) = "update"
                 /\ ~Withdrawn(sel, update, e)) =>
                 /\ ExpectedTarget(sel, update, e) \in DOMAIN tables
                 /\ <<PathOf(update, e), NetOf(update, e)>>
                       \in DOMAIN tables[ExpectedTarget(sel, update, e)]
        /\ \A e \in EntryIds(update) :
              (Convertible(update, e) /\ KindOf(update, e[1]) = "withdraw") =>
                 /\ ExpectedTarget(sel, update, e) \in DOMAIN tables
                 /\ <<PathOf(update, e), NetOf(update, e)>>
                       \notin DOMAIN tables[ExpectedTarget(sel, update, e)]

\* a message with an invalid entry next to valid ones has been applied
C12_Witness ==
    /\ last.op = "insert_bgp_update"
    /\ \E e \in EntryIds(last.update) : ~Convertible(last.update, e)
    /\ \E e \in EntryIds(last.update) :
          /\ Convertible(last.update, e) /\ KindOf(last.update, e[1]) = "update"
          /\ <<PathOf(last.update, e), NetOf(last.update, e)>>
                \in DOMAIN tables[ExpectedTarget(last.session, last.update, e)]
    /\ \E e \in EntryIds(last.update) :
          Convertible(last.update, e) /\ KindOf(last.update, e[1]) = "withdraw"

(***************************************************************************)
(* route_distinguisher.rs: the text form (FromStr, Display).  A text is a  *)
(* sequence of one-character strings.                                      *)
(***************************************************************************)
Text0 == <<"0", ":", "0">>
Err == <<"Err">>
Ok(x) == <<"Ok", x>>

IsDigit(c) == \E i \in 1..10 : Digits[i] = c
DigitValue(c) == (CHOOSE i \in 1..10 : Digits[i] = c) - 1

\* u32 arithmetic of str::parse: acc * 10 + d on the halves, Err on overflow
RECURSIVE AccumulateU32(_, _)
AccumulateU32(digits, acc) ==
    IF digits = <<>> THEN Ok(acc)
    ELSE LET lo == acc[2] * 10 + DigitValue(Head(digits))
             hi == acc[1] * 10 + lo \div 65536
         IN IF hi > 65535 THEN Err
            ELSE AccumulateU32(Tail(digits), <<hi, lo % 65536>>)

\* str::parse::<u32>: an optional "+", then one digit at least, digits only
parse_u32(s) ==
    LET body == IF s # <<>> /\ s[1] = "+" THEN Tail(s) ELSE s IN
    IF body = <<>> \/ \E i \in 1..Len(body) : ~IsDigit(body[i]) THEN Err
    ELSE AccumulateU32(body, <<0, 0>>)

\* the position of the first sep in s, 0 when there is none
IndexOf(s, sep) ==
    IF \E i \in 1..Len(s) : s[i] = sep
    THEN CHOOSE i \in 1..Len(s) : s[i] = sep /\ \A j \in 1..(i - 1) : s[j] # sep
    ELSE 0

RECURSIVE Split(_, _)
Split(s, sep) ==
    LET i == IndexOf(s, sep) IN
    IF i = 0 THEN <<s>> ELSE <<SubSeq(s, 1, i - 1)>> \o Split(SubSeq(s, i + 1, Len(s)), sep)

\* one octet of Ipv4Addr::from_str: one to three digits, no leading zero, at most 255
parse_octet(s) ==
    IF s = <<>> \/ Len(s) > 3 \/ (\E i \in 1..Len(s) : ~IsDigit(s[i]))
       \/ (Len(s) > 1 /\ s[1] = "0")
    THEN Err
    ELSE LET n == AccumulateU32(s, <<0, 0>>)[2][2] IN IF n > 255 THEN Err ELSE Ok(n)

\* str::parse::<Ipv4Addr>: four octets separated by dots, as the halves of the address
parse_ipv4(s) ==
    LET parts == Split(s, ".") IN
    IF Len(parts) # 4 \/ \E i \in 1..4 : parse_octet(parts[i]) = Err THEN Err
    ELSE Ok(<<parse_octet(parts[1])[2] * 256 + parse_octet(parts[2])[2],
              parse_octet(parts[3])[2] * 256 + parse_octet(parts[4])[2]>>)

from_str(s) ==
    IF s = Text0 THEN Ok(RdDefault)
    ELSE IF IndexOf(s, ":") = 0 THEN Err
    ELSE LET k == SubSeq(s, 1, IndexOf(s, ":") - 1)
             v == parse_u32(SubSeq(s, IndexOf(s, ":") + 1, Len(s)))
             asn == parse_u32(k)
             ip == parse_ipv4(k)
         IN IF v = Err THEN Err
            ELSE IF asn # Err
            THEN IF asn[2][1] > 0 /\ v[2][1] = 0 THEN Ok(RdType2(asn[2], v[2][2]))
                 ELSE IF asn[2][1] = 0
                      THEN Ok([t |-> "Type0", a |-> asn[2], v |-> v[2]])
                 ELSE Err
            ELSE IF ip # Err /\ v[2][1] = 0 THEN Ok(RdType1(ip[2], v[2][2]))
            ELSE Err

\* u32::to_string on the halves: the decimal digits, by division by ten
RECURSIVE u32_to_string(_)
u32_to_string(n) ==
    IF n[1] = 0 THEN to_string(n[2])
    ELSE LET t == (n[1] % 10) * 65536 + n[2] IN
         u32_to_string(<<n[1] \div 10, t \div 10>>) \o <<Digits[(t % 10) + 1]>>

ipv4_to_string(ip) ==
    join(<<to_string(ip[1] \div 256), to_string(ip[1] % 256),
           to_string(ip[2] \div 256), to_string(ip[2] % 256)>>, <<".">>)

\* the text form, were the address of a Type1 written as one number
rd_to_string_Numeric(rd) ==
    CASE rd.t = "Default" -> Text0
      [] OTHER -> u32_to_string(rd.a) \o <<":">> \o u32_to_string(rd.v)

\* impl Display for RouteDistinguisher
rd_to_string(rd) ==
    CASE rd.t = "Default" -> Text0
      [] rd.t = "Type1" -> ipv4_to_string(rd.a) \o <<":">> \o u32_to_string(rd.v)
      [] OTHER -> u32_to_string(rd.a) \o <<":">> \o u32_to_string(rd.v)

\* parsing a text, and writing the parsed value back as text
RdFromStr(s) ==
    /\ last' = [op |-> "from_str", text |-> s, result |-> from_str(s)]
    /\ UNCHANGED <<clients, sessions, tables, poisoned, caches, conn, stream, since, threads>>

RdToString ==
    /\ last.op = "from_str" /\ last.result # Err
    /\ last' = [op |-> "to_string", from |-> last.text, rd |-> last.result[2],
                text |-> rd_to_string(last.result[2])]
    /\ UNCHANGED <<clients, sessions, tables, poisoned, caches, conn, stream, since, threads>>

RdKeyTexts ==
    { <<"0">>,
      <<"1">>,
      <<"1", "0", "0">>,
      <<"1", "2", "3", "4">>,
      <<"6", "5", "5", "3", "5">>,
      <<"6", "5", "5", "3", "6">>,
      <<"7", "0", "0", "0", "0">>,
      <<"4", "2", "9", "4", "9", "6", "7", "2", "9", "5">>,
      <<"4", "2", "9", "4", "9", "6", "7", "2", "9", "6">>,
      <<"1", ".", "2", ".", "3", ".", "4">>,
      <<"0", ".", "0", ".", "0", ".", "0">>,
      <<"1", "0", ".", "0", ".", "0", ".", "1">>,
      <<"2", "5", "5", ".", "2", "5", "5", ".", "2", "5", "5", ".", "2", "5", "5">>,
      <<"2", "5", "6", ".", "1", ".", "1", ".", "1">>,
      <<"0", "1">>,
      <<"+", "1">>,
      <<>>,
      <<"1", ".", "2", ".", "3">>,
      <<"1", ".", "0", "2", ".", "3", ".", "4">>,
      <<"1", "9", "2", ".", "1", ".", "2", ".", "3">> }

RdValueTexts ==
    { <<"0">>,
      <<"1">>,
      <<"5", "6", "7", "8">>,
      <<"6", "5", "5", "3", "5">>,
      <<"6", "5", "5", "3", "6">>,
      <<"7", "0", "0", "0", "0">>,
      <<"4", "2", "9", "4", "9", "6", "7", "2", "9", "5">>,
      <<"4", "2", "9", "4", "9", "6", "7", "2", "9", "6">>,
      <<"0", "0", "7">>,
      <<>>,
      <<"1", ":", "2">> }

RdTexts ==
    {k \o <<":">> \o v : k \in RdKeyTexts, v \in RdValueTexts}
        \cup {<<>>, <<"1", "2">>, <<":">>}

\* canonical forms: a decimal number without sign or leading zero, and four
\* of them, each at most 255, separated by dots
CanonicalDecimal(s) ==
    /\ s # <<>>
    /\ \A i \in 1..Len(s) : IsDigit(s[i])
    /\ Len(s) > 1 => s[1] # "0"
\* s <= bound, both canonical decimals, compared as texts
DecimalAtMost(s, bound) ==
    \/ Len(s) < Len(bound)
    \/ /\ Len(s) = Len(bound)
       /\ \/ s = bound
          \/ \E i \in 1..Len(s) :
                /\ SubSeq(s, 1, i - 1) = SubSeq(bound, 1, i - 1)
                /\ DigitValue(s[i]) < DigitValue(bound[i])
MaxU8Text == <<"2", "5", "5">>
MaxU16Text == <<"6", "5", "5", "3", "5">>
MaxU32Text == <<"4", "2", "9", "4", "9", "6", "7", "2", "9", "5">>
CanonicalIpv4(s) ==
    /\ Len(Split(s, ".")) = 4
    /\ \A i \in 1..4 : /\ CanonicalDecimal(Split(s, ".")[i])
                       /\ DecimalAtMost(Split(s, ".")[i], MaxU8Text)
\* the canonical text of some route distinguisher: "0:0", u16:u32, u32:u16
\* or ipv4:u16
ValidCanonical(s) ==
    \/ s = Text0
    \/ /\ IndexOf(s, ":") # 0
       /\ LET k == SubSeq(s, 1, IndexOf(s, ":") - 1)
              v == SubSeq(s, IndexOf(s, ":") + 1, Len(s))
          IN /\ CanonicalDecimal(v)
             /\ \/ /\ CanonicalDecimal(k)
                   /\ \/ DecimalAtMost(k, MaxU16Text) /\ DecimalAtMost(v, MaxU32Text)
                      \/ DecimalAtMost(k, MaxU32Text) /\ DecimalAtMost(v, MaxU16Text)
                \/ CanonicalIpv4(k) /\ DecimalAtMost(v, MaxU16Text)

\* C13: every valid route-distinguisher text in canonical form parses, and
\* the text of the parsed value is the text that was parsed.
C13_TextRoundTrip ==
    /\ (last.op = "from_str" /\ ValidCanonical(last.text)) => last.result # Err
    /\ (last.op = "to_string" /\ ValidCanonical(last.from)) => last.text = last.from

\* "10.0.0.1:5678" has been parsed to a Type1 and written back
C13_Witness ==
    /\ last.op = "to_string"
    /\ last.from = <<"1", "0", ".", "0", ".", "0", ".", "1", ":", "5", "6", "7", "8">>
    /\ last.rd.t = "Type1"
    /\ last.text = last.from

\* decoding a wire value (rdh, rdl), given as its four 16-bit halves
RdTryFrom(w) ==
    /\ last' = [op |-> "try_from", wire |-> w, result |-> RdFromWire(w)]
    /\ UNCHANGED <<clients, sessions, tables, poisoned, caches, conn, stream, since, threads>>

WireTags == {0, 1, 2, 3, 65535}
WireHalves == {0, 1, 4660, 39030, 65535}      \* 0x1234, 0x9876
WirePool == {<<tag, h, l1, l2>> : tag \in WireTags, h \in WireHalves,
                                  l1 \in WireHalves, l2 \in WireHalves}

NextRd ==
    \/ \E s \in RdTexts : RdFromStr(s)
    \/ RdToString
    \/ \E w \in WirePool : RdTryFrom(w)

SpecRd == Init /\ [][NextRd]_vars

\* C14: (0, 0) decodes to Default and nothing else does; otherwise the top
\* half of high is the type tag: 0 gives Type0 of the low half of high and
\* of low, 1 gives Type1 of the address made of the low half of high and the
\* top half of low, and of the low half of low, 2 gives Type2 likewise, any
\* other tag an error carrying the tag; no two wire values of a known tag
\* decode to the same value.
C14_FromWire ==
    last.op = "try_from" =>
        LET w == last.wire r == last.result IN
        /\ (r = Ok(RdDefault)) <=> (w = <<0, 0, 0, 0>>)
        /\ w # <<0, 0, 0, 0>> =>
              CASE w[1] = 0 -> /\ r[1] = "Ok" /\ r[2].t = "Type0"
                               /\ r[2].a = <<0, w[2]>> /\ r[2].v = <<w[3], w[4]>>
                [] w[1] = 1 -> /\ r[1] = "Ok" /\ r[2].t = "Type1"
                               /\ r[2].a = <<w[2], w[3]>> /\ r[2].v = <<0, w[4]>>
                [] w[1] = 2 -> /\ r[1] = "Ok" /\ r[2].t = "Type2"
                               /\ r[2].a = <<w[2], w[3]>> /\ r[2].v = <<0, w[4]>>
                [] OTHER -> r[1] = "Err" /\ r[2] = w[1]
        /\ \A w2 \in WirePool :
              (w2 # w /\ w2[1] \in {0, 1, 2} /\ w[1] \in {0, 1, 2}) =>
                 RdFromWire(w2)[2] # r[2]

\* rdh = 0x00024321, rdl = 0x98765432 decodes to Type2{asn: 0x43219876, value: 0x5432}
C14_Witness ==
    /\ last.op = "try_from"
    /\ last.wire = <<2, 4660, 39030, 1>>
    /\ last.result = Ok(RdType2(<<4660, 39030>>, 1))

(***************************************************************************)
(* The peer header's flags.  In the BMP per-peer header the flags octet is *)
(* V, L, A and reserved bits from the most significant bit down; L, the    *)
(* second bit (0x40), marks a post-policy Adj-RIB-In.                      *)
(***************************************************************************)
PostPolicyFlag(flags) == (flags \div 64) % 2 = 1

\* the table kind a (peer type, post-policy) pair stands for, None when the
\* message is to be dropped
KindFor(peertype, post_policy) ==
    CASE peertype = 0 /\ ~post_policy -> Some("PrePolicyAdjIn")
      [] peertype = 0 /\ post_policy -> Some("PostPolicyAdjIn")
      [] peertype = 3 -> Some("LocRib")
      [] OTHER -> None

\* after a RouteMonitoring message: dropped when there is no kind, else
\* every announced entry the message does not withdraw sits in a table of
\* that kind for the connection and the peer
RoutedAs(kind) ==
    IF kind = None THEN last.dropped
    ELSE /\ ~last.dropped
         /\ \A e \in EntryIds(last.update) :
               (/\ Convertible(last.update, e)
                /\ KindOf(last.update, e[1]) = "update"
                /\ ~Withdrawn(T1, last.update, e)) =>
                  \E k \in DOMAIN tables :
                     /\ k.table_type.kind = kind[1]
                     /\ k.session_id = SessionId(last.addr, last.peer.peeraddress)
                     /\ <<PathOf(last.update, e), NetOf(last.update, e)>> \in DOMAIN tables[k]

C15_ByLowestBit ==
    last.op = "route_monitoring" =>
        RoutedAs(KindFor(last.peer.peertype, FlagBit7(last.peer.flags)))

(***************************************************************************)
(* The task of one BMP connection (bmp_collector.rs, run): accepted, it    *)
(* reads frames until the stream ends or a Termination message arrives,    *)
(* then clears the router's state.  The Table handle of bmp_collector.rs   *)
(* is the store: clear_peer_table is the teardown of a session,            *)
(* clear_router_table the teardown of a client.                            *)
(***************************************************************************)
clear_peer_table(session) == session_down(session, None)
clear_router_table(addr) == client_down(addr)

Accept(addr) ==
    /\ conn[addr].pc = "idle"
    /\ conn' = [conn EXCEPT ![addr].pc = "open"]
    /\ last' = [op |-> "accept", addr |-> addr]
    /\ UNCHANGED <<clients, sessions, tables, poisoned, caches, stream, since, threads>>

ConnRouteMonitoring(addr, peer, update) ==
    /\ conn[addr].pc = "open"
    /\ RouteMonitoring(addr, peer, update)

\* a peer down that tears down the session whatever table kind the peer maps to
ConnPeerDown_AnyKind(addr, peer) ==
    /\ conn[addr].pc = "open"
    /\ LET sel == table_selector_for_peer(addr, peer) IN
       IF sel # None
       THEN /\ clear_peer_table(sel[1].session_id)
            /\ last' = [op |-> "peer_down", addr |-> addr, peer |-> peer,
                        cleared |-> Some(sel[1].session_id),
                        removed |-> DOMAIN tables \ DOMAIN tables']
       ELSE /\ last' = [op |-> "peer_down", addr |-> addr, peer |-> peer,
                        cleared |-> None, removed |-> {}]
            /\ UNCHANGED <<clients, sessions, tables, poisoned, caches, since>>
    /\ UNCHANGED <<conn, stream, threads>>

\* the PeerDownNotification arm
ConnPeerDown(addr, peer) ==
    /\ conn[addr].pc = "open"
    /\ LET sel == table_selector_for_peer(addr, peer) IN
       IF sel # None /\ sel[1].table_type = PrePolicyAdjIn
       THEN /\ clear_peer_table(sel[1].session_id)
            /\ last' = [op |-> "peer_down", addr |-> addr, peer |-> peer,
                        cleared |-> Some(sel[1].session_id),
                        removed |-> DOMAIN tables \ DOMAIN tables']
       ELSE /\ last' = [op |-> "peer_down", addr |-> addr, peer |-> peer,
                        cleared |-> None, removed |-> {}]
            /\ UNCHANGED <<clients, sessions, tables, poisoned, caches, since>>
    /\ UNCHANGED <<conn, stream, threads>>

\* a frame the codec rejects, a message that does not decode, a PeerUp or a
\* message of another kind: logged, and the loop goes on
ConnSkip(addr, kind) ==
    /\ conn[addr].pc = "open"
    /\ last' = [op |-> "skipped", addr |-> addr, kind |-> kind]
    /\ UNCHANGED <<clients, sessions, tables, poisoned, caches, conn, stream, since, threads>>

\* a frame of fewer than 5 bytes: &orig_msg[5..] is out of range, the task panics
ConnShortFrame(addr) ==
    /\ conn[addr].pc = "open"
    /\ conn' = [conn EXCEPT ![addr].pc = "panicked"]
    /\ last' = [op |-> "short_frame", addr |-> addr]
    /\ UNCHANGED <<clients, sessions, tables, poisoned, caches, stream, since, threads>>

\* a Termination message, or the end of the stream: the loop is left
ConnLeaveLoop(addr, why) ==
    /\ conn[addr].pc = "open"
    /\ conn' = [conn EXCEPT ![addr].pc = "closing"]
    /\ last' = [op |-> why, addr |-> addr]
    /\ UNCHANGED <<clients, sessions, tables, poisoned, caches, stream, since, threads>>

ConnTeardown(addr) ==
    /\ conn[addr].pc = "closing"
    /\ clear_router_table(addr)
    /\ conn' = [conn EXCEPT ![addr] = [pc |-> "done", downs |-> @.downs + 1]]
    /\ last' = [op |-> "client_down", addr |-> addr]
    /\ UNCHANGED <<stream, threads>>

ConnPeers ==
    { PeerHeader(0, 0, "p1"), PeerHeader(0, 1, "p1"), PeerHeader(3, 0, "p1"),
      PeerHeader(1, 0, "p1") }
ConnSelectors == {T1, T2}
SkipKinds == {"codec_error", "parse_error", "peer_up", "other"}

NextConn ==
    \/ \E addr \in Addrs : Accept(addr)
    \/ ClientUp("a1", Client("rtr1", "r1"))
    \/ SessionUp(S1, Session)
    \/ \E table \in ConnSelectors : UpdateRoute(0, N8, table, AttrsA)
    \/ \E peer \in ConnPeers : ConnRouteMonitoring("a1", peer, BmpUpdates[1])
    \/ \E addr \in Addrs, peer \in ConnPeers : ConnPeerDown(addr, peer)
    \/ \E addr \in Addrs, kind \in SkipKinds : ConnSkip(addr, kind)
    \/ \E addr \in Addrs : ConnShortFrame(addr)
    \/ \E addr \in Addrs, why \in {"termination", "stream_end"} : ConnLeaveLoop(addr, why)
    \/ \E addr \in Addrs : ConnTeardown(addr)

SpecConn == Init /\ [][NextConn]_vars

\* C16: a PeerDownNotification tears the session of (client, peer address)
\* down when, and only when, its peer header maps to a PrePolicyAdjIn
\* selector; for a header that maps to PostPolicyAdjIn, to LocRib or to
\* nothing the store is left as it was; in both cases the connection goes on
\* reading.
C16_PeerDown ==
    [][last'.op = "peer_down" =>
        LET sel == table_selector_for_peer(last'.addr, last'.peer)
            sid == SessionId(last'.addr, last'.peer.peeraddress)
        IN /\ IF sel # None /\ sel[1].table_type.kind = "PrePolicyAdjIn"
              THEN /\ last'.cleared = Some(sid)
                   /\ sid \notin DOMAIN sessions'
                   /\ \A k \in DOMAIN tables' :
                         k.session_id = sid => k.table_type.kind = "LocRib"
                   /\ \A k \in DOMAIN tables : k.session_id # sid => k \in DOMAIN tables'
              ELSE /\ last'.cleared = None
                   /\ <<clients', sessions', tables', caches'>>
                         = <<clients, sessions, tables, caches>>
           /\ conn'[last'.addr].pc = "open"]_vars

\* a peer down of a pre-policy peer has removed a table and a session
C16_Witness ==
    /\ last.op = "peer_down"
    /\ last.cleared = Some(S1)
    /\ last.removed # {}
    /\ S1 \notin DOMAIN sessions
    /\ conn["a1"].pc = "open"

\* a peer down of a post-policy peer has left the post-policy table in place
C16_WitnessIgnored ==
    /\ last.op = "peer_down"
    /\ last.cleared = None
    /\ FlagBit7(last.peer.flags)
    /\ T2 \in DOMAIN tables

\* C17 as claimed: the task of a connection ends only through the client
\* teardown for its address, made once; a frame that cannot be decoded is
\* skipped and the connection goes on.
C17_AsClaimed ==
    \A addr \in Addrs :
        /\ conn[addr].pc # "panicked"
        /\ conn[addr].downs <= 1
        /\ conn[addr].pc = "done" <=> conn[addr].downs = 1

\* what holds of every connection: at most one teardown, made when the loop
\* has been left, and no message handled once the loop has been left
C17_TeardownOnce ==
    [][\A addr \in Addrs :
        /\ conn'[addr].downs <= 1
        /\ conn'[addr].downs # conn[addr].downs =>
              conn[addr].pc = "closing" /\ addr \notin DOMAIN clients'
        /\ conn[addr].pc \in {"closing", "done"} =>
              ~(last'.op \in {"route_monitoring", "peer_down", "skipped"}
                  /\ last'.addr = addr)]_vars

(***************************************************************************)
(* get_routes step by step (store_impl.rs 121-217): the call selects the   *)
(* candidate tables and spawns the producer; the producer scans the tables *)
(* one by one and sends each route into a channel of capacity 2; the       *)
(* consumer takes a route from the channel, looks its client up under the  *)
(* clients lock, then its session under the sessions lock, and yields.     *)
(* A candidate is held by a handle that outlives its removal from the      *)
(* table map: snap is the content the handles give access to.              *)
(***************************************************************************)
ChannelCapacity == 2

StreamStart(q) ==
    /\ stream.phase = "none"
    /\ ~poisoned
    /\ ~RegexPanics(q)
    /\ ~(IsKind(q, "Router") /\ RouterLookupPanics(tables, clients))
    /\ tables' = TablesAfterSelect(tables, q)
    /\ Cardinality(DOMAIN tables') <= MaxTables
    /\ stream' = [phase |-> "active", q |-> q,
                  snap |-> Restrict(tables', Candidates(tables', clients, q)),
                  todo |-> Candidates(tables', clients, q),
                  out |-> {}, chan |-> <<>>, held |-> None, res |-> {},
                  sess0 |-> DOMAIN sessions, late |-> {}]
    /\ since' = IF IsKind(q, "Table")
                THEN Touch(client_addr(q.table_query[1].arg)) ELSE since
    /\ last' = [op |-> "stream_start", q |-> q]
    /\ UNCHANGED <<clients, sessions, poisoned, caches, conn, threads>>

\* what the handles cloned by the query give access to: a table still in the
\* map is the table the writers write to; a table removed from the map since
\* is kept alive by the handle with the content it had (no specification
\* here writes to a table that was removed and created again during a query)
Handles ==
    [k \in DOMAIN stream.snap |-> IF k \in DOMAIN tables THEN tables[k] ELSE stream.snap[k]]

\* a scan that takes the table's lock anew for every entry it reads
StreamScan_EntryByEntry(k) ==
    /\ stream.phase \in {"active", "dropped"}
    /\ k \in stream.todo
    /\ \/ \E x \in UNION TableScan(Handles, stream.q, k) :
             /\ x \notin stream.out
             /\ stream' = [stream EXCEPT !.out = @ \cup {x}]
       \/ stream' = [stream EXCEPT !.todo = @ \ {k}]
    /\ last' = [op |-> "scan", table |-> k]
    /\ UNCHANGED <<clients, sessions, tables, poisoned, caches, conn, since, threads>>

\* the producer's flat_map closure on one table: lock, get_routes, filter,
\* take, collect, all under the table's lock; it runs whether or not the
\* receiver is still there
StreamScan(k) ==
    /\ stream.phase \in {"active", "dropped"}
    /\ k \in stream.todo
    /\ \E items \in TableScan(Handles, stream.q, k) :
          stream' = [stream EXCEPT !.todo = @ \ {k}, !.out = @ \cup items,
                                   !.late = IF stream.phase = "dropped"
                                            THEN @ \cup {k} ELSE @]
    /\ last' = [op |-> "scan", table |-> k]
    /\ UNCHANGED <<clients, sessions, tables, poisoned, caches, conn, since, threads>>

\* a send that keeps waiting for room after the receiver is gone
StreamSend_WaitsForever ==
    /\ stream.phase = "active"
    /\ \E item \in stream.out :
          /\ Len(stream.chan) < ChannelCapacity
          /\ stream' = [stream EXCEPT !.out = @ \ {item}, !.chan = Append(@, item)]
    /\ last' = [op |-> "send"]
    /\ UNCHANGED <<clients, sessions, tables, poisoned, caches, conn, since, threads>>

\* a send that does not wait for room in the channel
StreamSend_Unbounded ==
    /\ stream.phase \in {"active", "dropped"}
    /\ \E item \in stream.out :
          IF stream.phase = "dropped"
          THEN stream' = [stream EXCEPT !.out = @ \ {item}]
          ELSE stream' = [stream EXCEPT !.out = @ \ {item}, !.chan = Append(@, item)]
    /\ last' = [op |-> "send"]
    /\ UNCHANGED <<clients, sessions, tables, poisoned, caches, conn, since, threads>>

\* tx.blocking_send(res), its error dropped: into the channel when there is
\* room, discarded when the receiver is gone
StreamSend ==
    /\ stream.phase \in {"active", "dropped"}
    /\ \E item \in stream.out :
          IF stream.phase = "dropped"
          THEN stream' = [stream EXCEPT !.out = @ \ {item}]
          ELSE /\ Len(stream.chan) < ChannelCapacity
               /\ stream' = [stream EXCEPT !.out = @ \ {item},
                                           !.chan = Append(@, item)]
    /\ last' = [op |-> "send"]
    /\ UNCHANGED <<clients, sessions, tables, poisoned, caches, conn, since, threads>>

\* the consumer's filter_map, first half: the client lookup
StreamLookup ==
    /\ stream.phase = "active"
    /\ stream.held = None
    /\ stream.chan # <<>>
    /\ Cardinality(stream.res) < EffectiveLimits(stream.q).max_results
    /\ LET item == Head(stream.chan) IN
       stream' = [stream EXCEPT
                    !.chan = Tail(@),
                    !.held = IF client_addr(item.table) \in DOMAIN clients
                             THEN Some([item |-> item,
                                        client |-> clients[client_addr(item.table)]])
                             ELSE None]
    /\ last' = [op |-> "lookup"]
    /\ UNCHANGED <<clients, sessions, tables, poisoned, caches, conn, since, threads>>

\* second half: the session lookup, and the QueryResult
StreamYield ==
    /\ stream.phase = "active"
    /\ stream.held # None
    /\ LET r == stream.held[1].item
           result == [state |-> route_state(r.table), net |-> r.net, table |-> r.table,
                      attrs |-> r.attrs, client |-> stream.held[1].client,
                      session |-> IF session_id(r.table) # None
                                     /\ r.table.session_id \in DOMAIN sessions
                                  THEN Some(sessions[r.table.session_id]) ELSE None,
                      path_id |-> r.path_id]
       IN /\ stream' = [stream EXCEPT !.held = None, !.res = @ \cup {result}]
          /\ last' = [op |-> "yield", result |-> result]
    /\ UNCHANGED <<clients, sessions, tables, poisoned, caches, conn, since, threads>>

Exhausted ==
    stream.todo = {} /\ stream.out = {} /\ stream.chan = <<>> /\ stream.held = None

\* the consumer drops the stream before the sequence is exhausted
StreamDrop ==
    /\ stream.phase = "active"
    /\ ~Exhausted
    /\ stream' = [stream EXCEPT !.phase = "dropped", !.chan = <<>>, !.held = None]
    /\ last' = [op |-> "stream_drop"]
    /\ UNCHANGED <<clients, sessions, tables, poisoned, caches, conn, since, threads>>

\* the sequence read to its end
StreamEnd ==
    /\ stream.phase = "active"
    /\ Exhausted
    /\ stream' = [stream EXCEPT !.phase = "done"]
    /\ last' = [op |-> "stream_end"]
    /\ UNCHANGED <<clients, sessions, tables, poisoned, caches, conn, since, threads>>

StreamSelectors == {T1, T2, T5}
StreamQueries ==
    { Query(None, OrLonger(Root4), None, None, RdDefault),
      Query(Some(TableQuerySession(S1)), OrLonger(Root4),
            Some(QueryLimits(1, 1)), None, RdDefault) }

NextStream ==
    \/ ClientUp("a1", Client("rtr1", "r1"))
    \/ SessionUp(S1, Session)
    \/ \E table \in StreamSelectors : stream.phase = "none" /\ UpdateRoute(0, N8, table, AttrsA)
    \/ ClientDown("a1")
    \/ SessionDown(S1, None)
    \/ \E q \in StreamQueries : StreamStart(q)
    \/ \E k \in StreamSelectors : StreamScan(k)
    \/ StreamSend
    \/ StreamLookup
    \/ StreamYield
    \/ StreamDrop
    \/ StreamEnd

SpecStream == Init /\ [][NextStream]_vars

\* C18: under every interleaving of a get_routes stream with client_down(addr)
\* or session_down(sid, None), no QueryResult is yielded for a table of addr
\* once the Client for addr has been removed, and, when sid was registered
\* before the query started, no QueryResult for a PrePolicyAdjIn or
\* PostPolicyAdjIn table of sid is yielded with its session absent.
C18_AsClaimed ==
    [][(last'.op = "yield" /\ stream'.res # stream.res) =>
          LET result == last'.result IN
          /\ client_addr(result.table) \in DOMAIN clients'
          /\ (/\ session_id(result.table) # None
              /\ result.table.session_id \in stream.sess0)
                 => result.session # None]_vars

\* C20: when the consumer of a get_routes stream is dropped before the sequence
\* is exhausted, no per-table scan that has not yet started is started
\* afterwards.
C20_AsClaimed ==
    [][stream.phase = "dropped" => stream'.todo = stream.todo]_vars

\* what does hold after the drop: nothing more is yielded
C20_OutputDiscarded ==
    [][stream.phase = "dropped" => stream'.res = stream.res]_vars

(***************************************************************************)
(* The attribute cache under updates, withdrawals and teardowns: two       *)
(* attribute sets, tables of two sessions of one client and of a second    *)
(* client, so that a set can be shared across a teardown.                  *)
(***************************************************************************)
CacheSelectors == {T1, T5, T6}
CacheNets == {N8, N16}
CacheAttrs == {AttrsA, AttrsB}
CacheQuery == Query(None, OrLonger(Root4), None, None, RdDefault)

NextCache ==
    \/ \E cu \in ClientUps : ClientUp(cu[1], cu[2])
    \/ \E net \in CacheNets, table \in CacheSelectors, route \in CacheAttrs :
            UpdateRoute(0, net, table, route)
    \/ \E net \in CacheNets, table \in CacheSelectors : WithdrawRoute(0, net, table)
    \/ \E addr \in Addrs : ClientDown(addr)
    \/ SessionDown(S1, None)
    \/ GetRoutes(CacheQuery)

SpecCache == Init /\ [][NextCache]_vars

Entries(tbls) == UNION {{<<k, e>> : e \in DOMAIN tbls[k]} : k \in DOMAIN tbls}

\* C19: after any sequence of update_route, withdraw_route, client_down and
\* session_down, every entry still present in a table has its attribute set
\* in the cache and carries the attrs of its last update_route (an update
\* sets them, no other operation changes them), and a query returns the
\* entry with exactly these attrs.
C19_NeverEvictsReferenced ==
    [][/\ Referenced(tables') \subseteq caches'
       /\ last'.op = "update_route" =>
            /\ tables'[last'.table][<<last'.path_id, last'.net>>] = last'.route
            /\ \A x \in Entries(tables') \ {<<last'.table, <<last'.path_id, last'.net>>>>} :
                  x \in Entries(tables) /\ tables'[x[1]][x[2]] = tables[x[1]][x[2]]
       /\ last'.op \in {"withdraw_route", "client_down", "session_down", "get_routes"} =>
            \A x \in Entries(tables') :
                  x \in Entries(tables) /\ tables'[x[1]][x[2]] = tables[x[1]][x[2]]
       /\ (last'.op = "get_routes" /\ last'.outcome = "ok") =>
            /\ \A r \in last'.res :
                  /\ <<r.table, <<r.path_id, r.net>>>> \in Entries(tables)
                  /\ r.attrs = tables[r.table][<<r.path_id, r.net>>]
            /\ \A x \in Entries(tables) :
                  client_addr(x[1]) \in DOMAIN clients =>
                     \E r \in last'.res : /\ r.table = x[1]
                                          /\ <<r.path_id, r.net>> = x[2]
                                          /\ r.attrs = tables[x[1]][x[2]]
      ]_vars

\* a teardown has just removed a table that shared an attribute set with an
\* entry of a table that stays
C19_Witness ==
    /\ last.op \in {"client_down", "session_down"}
    /\ last.released \cap Referenced(tables) # {}
    /\ Referenced(tables) \subseteq caches

\* a query has returned the surviving entry after such a teardown
C19_WitnessQueried ==
    /\ last.op = "get_routes"
    /\ last.outcome = "ok"
    /\ \E r \in last.res : r.attrs \in caches /\ since[client_addr(r.table)] = "live"
    /\ \E addr \in Addrs : since[addr] = "down"

(***************************************************************************)
(* One query over a loaded store: the store after client_up(a1),           *)
(* session_up(S1) and three update_route calls into the two tables of S1,  *)
(* so that the producers have more results than the channel has room for.  *)
(***************************************************************************)
LoadedTables ==
    (T1 :> (<<0, N8>> :> AttrsA @@ <<0, N16>> :> AttrsA)) @@ (T2 :> (<<0, N8>> :> AttrsA))

InitLoaded ==
    /\ clients = ("a1" :> Client("rtr1", "r1"))
    /\ sessions = (S1 :> Session)
    /\ tables = LoadedTables
    /\ poisoned = FALSE
    /\ caches = Referenced(LoadedTables)
    /\ conn = [a \in Addrs |-> [pc |-> "idle", downs |-> 0]]
    /\ stream = [phase |-> "none"]
    /\ threads = [t \in Threads |-> [prog |-> <<>>, holds |-> {}]]
    /\ since = [a \in Addrs |-> "live"]
    /\ last = [op |-> "new"]

NextChannel ==
    \/ \E q \in StreamQueries : StreamStart(q)
    \/ \E k \in StreamSelectors : StreamScan(k)
    \/ StreamSend
    \/ StreamLookup
    \/ StreamYield
    \/ StreamDrop
    \/ StreamEnd
    \/ ClientDown("a1")

SpecChannel == InitLoaded /\ [][NextChannel]_vars

Range(seq) == {seq[i] : i \in 1..Len(seq)}

\* C21: while the consumer of a get_routes query is alive the channel holds at
\* most its capacity (2) of undelivered results; a result leaves a producer
\* only by being appended to the channel, which happens only when there is
\* room, and a result leaves the channel only by the consumer taking its head.
C21_Backpressure ==
    [][stream'.phase = "active" =>
         /\ Len(stream'.chan) <= ChannelCapacity
         /\ stream.phase = "active" =>
              IF last'.op = "lookup"
              THEN stream'.chan = Tail(stream.chan) /\ stream'.out = stream.out
              ELSE /\ Len(stream'.chan) >= Len(stream.chan)
                   /\ SubSeq(stream'.chan, 1, Len(stream.chan)) = stream.chan
                   /\ stream.out \ stream'.out = Range(stream'.chan) \ Range(stream.chan)
                   /\ Len(stream.chan) = ChannelCapacity => stream.out \subseteq stream'.out
      ]_vars

\* the channel is full, the consumer is alive and a producer holds a result
\* it cannot send yet
C21_Witness ==
    /\ stream.phase = "active"
    /\ Len(stream.chan) = ChannelCapacity
    /\ stream.out # {}

(***************************************************************************)
(* The locks.  Each call is the sequence of lock steps its code makes:     *)
(* <<"acq", l>> waits for mutex l and takes it, <<"rel", l>> is the drop   *)
(* of its guard, the other steps are work done between the two.  The       *)
(* store has the mutexes clients, sessions, tables (the table map) and     *)
(* caches, and every table has its own mutex.  A guard taken inside one    *)
(* statement is dropped at the end of that statement.                      *)
(***************************************************************************)
Acq(l) == <<"acq", l>>
Rel(l) == <<"rel", l>>
TableLock(k) == IF k = T1 THEN "table:T1" ELSE "table:T2"
TableLocks == {"table:T1", "table:T2"}

Locked(l) == <<Acq(l), Rel(l)>>

\* self.tables.lock().unwrap().entry(sel).or_insert(..).clone()
get_table_steps == Locked("tables")

\* InMemoryTable::update_route: the table's mutex, and inside it the cache's
\* to intern the attribute set
TableUpdateSteps(k) ==
    <<Acq(TableLock(k)), Acq("caches"), Rel("caches"), Rel(TableLock(k))>>

\* InMemoryTable::withdraw_route
TableWithdrawSteps(k) == Locked(TableLock(k))

\* an update_route that keeps the map's guard until the table is written
update_route_steps_UnderMapLock(k) ==
    <<Acq("tables")>> \o TableUpdateSteps(k) \o <<Rel("tables")>>

update_route_steps(k) == get_table_steps \o TableUpdateSteps(k)

withdraw_route_steps(k) == get_table_steps \o TableWithdrawSteps(k)

\* the candidate selection of get_routes, by the kind of its table_query;
\* get_tables_for_router looks every table's client up under the clients
\* mutex while it holds the map's
SelectSteps(kind) ==
    IF kind = "Router"
    THEN <<Acq("tables"), Acq("clients"), <<"lookup", "clients">>, Rel("clients"), Rel("tables")>>
    ELSE Locked("tables")

\* the producer on one candidate table: lock, scan and collect, drop the
\* guard, then send what was collected
ProducerSteps(k) ==
    <<Acq(TableLock(k)), <<"scan", TableLock(k)>>, Rel(TableLock(k)), <<"send", TableLock(k)>>>>

\* the consumer on one result
ConsumerSteps == Locked("clients") \o Locked("sessions")

RECURSIVE ProducerAll(_)
ProducerAll(cands) ==
    IF cands = <<>> THEN <<>> ELSE ProducerSteps(Head(cands)) \o ProducerAll(Tail(cands))

get_routes_steps(kind, cands) == SelectSteps(kind) \o ProducerAll(cands) \o ConsumerSteps

get_routers_steps == Locked("clients")
get_routing_instances_steps == Locked("tables")
client_up_steps == Locked("clients")
client_down_steps ==
    Locked("clients") \o Locked("sessions") \o Locked("tables") \o Locked("caches")
session_up_steps == Locked("sessions")
session_down_steps == Locked("sessions") \o Locked("tables") \o Locked("caches")

Calls ==
    {update_route_steps(T1), update_route_steps(T2), withdraw_route_steps(T1),
     get_routes_steps("Table", <<T1>>), get_routes_steps("Client", <<T1, T2>>),
     get_routes_steps("Router", <<T1>>), get_routes_steps("Session", <<T2>>),
     get_routes_steps("None", <<T2, T1>>),
     get_routers_steps, get_routing_instances_steps,
     client_up_steps, client_down_steps, session_up_steps, session_down_steps}

Idle(t) == threads[t].prog = <<>>
NextStep(t) == Head(threads[t].prog)
Holder(l) == {t \in Threads : l \in threads[t].holds}
\* a panic of lock().unwrap() poisons the mutexes of the clients and the table map
Poisonable == {"clients", "tables"}

\* a thread enters a call of the store
Call(t, steps) ==
    /\ Idle(t)
    /\ threads' = [threads EXCEPT ![t].prog = steps]
    /\ UNCHANGED <<clients, sessions, tables, poisoned, caches, conn, stream, since, last>>

\* lock().unwrap() on a mutex nobody holds
Acquire(t) ==
    /\ ~Idle(t)
    /\ NextStep(t)[1] = "acq"
    /\ Holder(NextStep(t)[2]) = {}
    /\ ~(poisoned /\ NextStep(t)[2] \in Poisonable)
    /\ threads' = [threads EXCEPT ![t].prog = Tail(@), ![t].holds = @ \cup {NextStep(t)[2]}]
    /\ UNCHANGED <<clients, sessions, tables, poisoned, caches, conn, stream, since, last>>

\* lock().unwrap() on a poisoned mutex: the call panics and its guards are dropped
AcquirePoisoned(t) ==
    /\ ~Idle(t)
    /\ NextStep(t)[1] = "acq"
    /\ Holder(NextStep(t)[2]) = {}
    /\ poisoned /\ NextStep(t)[2] \in Poisonable
    /\ threads' = [threads EXCEPT ![t] = [prog |-> <<>>, holds |-> {}]]
    /\ UNCHANGED <<clients, sessions, tables, poisoned, caches, conn, stream, since, last>>

\* the guard goes out of scope
Release(t) ==
    /\ ~Idle(t)
    /\ NextStep(t)[1] = "rel"
    /\ threads' = [threads EXCEPT ![t].prog = Tail(@), ![t].holds = @ \ {NextStep(t)[2]}]
    /\ UNCHANGED <<clients, sessions, tables, poisoned, caches, conn, stream, since, last>>

\* work between lock steps: a scan, a send, a lookup that finds its client
Work(t) ==
    /\ ~Idle(t)
    /\ NextStep(t)[1] \in {"scan", "send", "lookup"}
    /\ threads' = [threads EXCEPT ![t].prog = Tail(@)]
    /\ UNCHANGED <<clients, sessions, tables, poisoned, caches, conn, stream, since, last>>

\* tables_for_router_fn: get(k.client_addr()).unwrap() on a table whose client
\* is not registered panics with both guards held
LookupPanics(t) ==
    /\ ~Idle(t)
    /\ NextStep(t)[1] = "lookup"
    /\ poisoned' = TRUE
    /\ threads' = [threads EXCEPT ![t] = [prog |-> <<>>, holds |-> {}]]
    /\ UNCHANGED <<clients, sessions, tables, caches, conn, stream, since, last>>

NextLocks ==
    \/ \E t \in Threads, steps \in Calls : Call(t, steps)
    \/ \E t \in Threads : Acquire(t)
    \/ \E t \in Threads : AcquirePoisoned(t)
    \/ \E t \in Threads : Release(t)
    \/ \E t \in Threads : Work(t)
    \/ \E t \in Threads : LookupPanics(t)

SpecLocks == Init /\ [][NextLocks]_vars

\* a thread inside a call that cannot take its next step
Blocked(t) ==
    /\ ~Idle(t)
    /\ NextStep(t)[1] = "acq"
    /\ Holder(NextStep(t)[2]) # {}

\* C22: under every interleaving of the store's calls no deadlock is
\* reachable (whenever a thread is inside a call, some thread inside a call
\* can take its next step), and the lock of the table map is never held while
\* a per-table lock is acquired or held or while a table is scanned.
C22_NoDeadlock ==
    /\ (\E t \in Threads : ~Idle(t)) => \E t \in Threads : ~Idle(t) /\ ~Blocked(t)
    /\ \A t \in Threads :
          "tables" \in threads[t].holds =>
             /\ threads[t].holds \cap TableLocks = {}
             /\ ~Idle(t) => /\ NextStep(t)[1] # "scan"
                            /\ ~(NextStep(t)[1] = "acq" /\ NextStep(t)[2] \in TableLocks)

\* one thread selects the tables of a router and holds the map's and the
\* clients' mutex, a second scans a table under its lock, the third waits
\* for a mutex that is held
C22_Witness ==
    \E t1, t2, t3 \in Threads :
        /\ threads[t1].holds = {"tables", "clients"}
        /\ ~Idle(t2) /\ NextStep(t2)[1] = "scan"
        /\ Blocked(t3)

(***************************************************************************)
(* A query over a table that is written to while the query runs.           *)
(***************************************************************************)
SnapshotNets == {N8, N16}
SnapshotAttrs == {AttrsA, AttrsB}
SnapshotQueries ==
    { Query(Some(TableQueryTable(T1)), OrLonger(Root4), None, None, RdDefault),
      Query(Some(TableQueryTable(T1)), OrLonger(Root4), Some(QueryLimits(1, 0)), None, RdDefault) }

NextSnapshot ==
    \/ ClientUp("a1", Client("rtr1", "r1"))
    \/ \E net \in SnapshotNets, route \in SnapshotAttrs : UpdateRoute(0, net, T1, route)
    \/ \E net \in SnapshotNets : WithdrawRoute(0, net, T1)
    \/ \E q \in SnapshotQueries : StreamStart(q)
    \/ StreamScan(T1)
    \/ StreamSend
    \/ StreamLookup
    \/ StreamYield
    \/ StreamDrop
    \/ StreamEnd

SpecSnapshot == Init /\ [][NextSnapshot]_vars

\* the matching entries of table k as they are now
MatchingNow(k) ==
    {[table |-> k, net |-> r.net, path_id |-> r.path_id, attrs |-> r.attrs] :
        r \in {x \in TableGetRoutes(tables[k], Some(stream.q.net_query)) :
                  nets_filter_fn(stream.q.as_path_regex, x.attrs)}}

\* what the query has in hand of table k: collected, in the channel, with the
\* consumer, or yielded
InHand(st, k) ==
    {x \in st.out \cup Range(st.chan) : x.table = k}
      \cup (IF st.held # None /\ st.held[1].item.table = k THEN {st.held[1].item} ELSE {})
      \cup {[table |-> r.table, net |-> r.net, path_id |-> r.path_id, attrs |-> r.attrs] :
               r \in {y \in st.res : y.table = k}}

\* C23: under concurrent update_route and withdraw_route on a table being
\* queried, the entries one get_routes call takes from that table are taken
\* in one step, from the matching entries the table holds at that instant
\* (all of them, or max_results_per_table of them), and nothing is added to
\* or changed in them afterwards.
C23_Snapshot ==
    [][(stream.phase \in {"active", "dropped"} /\ stream'.phase \in {"active", "dropped"}) =>
          \A k \in DOMAIN stream.snap :
             IF InHand(stream', k) \subseteq InHand(stream, k)
             THEN TRUE
             ELSE /\ InHand(stream, k) = {}
                  /\ k \in stream.todo /\ k \notin stream'.todo
                  /\ k \in DOMAIN tables
                  /\ InHand(stream', k) \in Take(MatchingNow(k),
                                                 EffectiveLimits(stream.q).max_results_per_table)
      ]_vars

\* a result of the query is of an entry that a concurrent write has since
\* withdrawn or replaced, while another entry was added to the table
C23_Witness ==
    /\ stream.phase = "active"
    /\ T1 \in DOMAIN tables
    /\ \E r \in stream.res :
          /\ r.table = T1
          /\ \/ <<r.path_id, r.net>> \notin DOMAIN tables[T1]
             \/ tables[T1][<<r.path_id, r.net>>] # r.attrs
    /\ \E e \in DOMAIN tables[T1] : \A r \in stream.res : <<r.path_id, r.net>> # e

(***************************************************************************)
(* Next hops: messages with the NextHop attribute before and after the     *)
(* multiprotocol attributes, without it, with two multiprotocol attributes *)
(* and with a multiprotocol next hop that is neither IPv4 nor IPv6.        *)
(***************************************************************************)
MedA == [kind |-> "MED", value |-> 5]
MpUpdatesVia(nexthop, family, addrs) ==
    [kind |-> "MPUpdates", nexthop |-> nexthop, addrs |-> [family |-> family, addrs |-> addrs]]
HopV6 == [kind |-> "V6", addr |-> "nh3"]
HopRd == [kind |-> "V4RD", addr |-> "nh4"]

HopPool ==
    << Update(<<MpUpdatesVia(HopV6, "IPV6U", <<A6x16>>), MedA, HopA>>,
              [family |-> "IPV4U", addrs |-> <<A16>>], NoAddrs),
       Update(<<PathA, MpUpdatesVia(HopRd, "VPNV4U", <<[rd |-> WireDefault, prefix |-> A8]>>)>>,
              [family |-> "IPV4U", addrs |-> <<A16>>], NoAddrs),
       Update(<<HopA, PathA>>, [family |-> "IPV4U", addrs |-> <<A8, A16>>], NoAddrs),
       Update(<<MpUpdatesVia(HopMp, "IPV4U", <<A8>>), HopA,
                MpUpdatesVia(HopV6, "IPV6U", <<A6x16>>), PathA>>,
              NoAddrs, NoAddrs),
       Update(<<HopA>>, NoAddrs, [family |-> "IPV4U", addrs |-> <<A8, A16>>]) >>

NextHopAttr ==
    \/ ClientUp("a1", Client("rtr1", "r1"))
    \/ \E i \in DOMAIN HopPool : InsertBgpUpdate(T1, HopPool[i])
    \/ GetRoutes(Query(None, OrLonger(Root4), None, None, RdDefault))

SpecHop == Init /\ [][NextHopAttr]_vars

\* the next hop the claim gives the route of entry e of the message
ExpectedHop(update, e) ==
    IF e[1] >= 1
    THEN IF update.attrs[e[1]].nexthop.kind \in {"V4", "V6"}
         THEN Some(update.attrs[e[1]].nexthop.addr) ELSE None
    ELSE IF \E j \in 1..Len(update.attrs) : update.attrs[j].kind = "NextHop"
         THEN Some(update.attrs[CHOOSE j \in 1..Len(update.attrs) :
                                   update.attrs[j].kind = "NextHop"].value)
         ELSE None

UpdateCalls(calls) == {i \in 1..Len(calls) : calls[i][1] = "update"}

\* C24: every route insert_bgp_update takes from a multiprotocol-reachable
\* attribute is stored with that attribute's own next hop (none when it is
\* neither IPv4 nor IPv6), every route of the legacy NLRI list with the
\* message's NextHop attribute wherever it stands (none when there is none),
\* and all routes of one message agree on every other attribute field.
C24_NextHops ==
    last.op = "insert_bgp_update" =>
       /\ \A i \in UpdateCalls(last.calls) :
             \E e \in EntryIds(last.update) :
                /\ Convertible(last.update, e)
                /\ CallIsFor(last.calls[i], last.session, last.update, e)
                /\ last.calls[i][5].nexthop = ExpectedHop(last.update, e)
                /\ tables[last.calls[i][4]][<<last.calls[i][2], last.calls[i][3]>>]
                       = last.calls[i][5]
       /\ \A e \in EntryIds(last.update) :
             (Convertible(last.update, e) /\ KindOf(last.update, e[1]) = "update") =>
                \E i \in UpdateCalls(last.calls) :
                   /\ CallIsFor(last.calls[i], last.session, last.update, e)
                   /\ last.calls[i][5].nexthop = ExpectedHop(last.update, e)
       /\ \A i, j \in UpdateCalls(last.calls) :
             [last.calls[i][5] EXCEPT !.nexthop = None] = [last.calls[j][5] EXCEPT !.nexthop = None]

\* a message whose NextHop attribute follows a multiprotocol attribute and
\* differs from that attribute's next hop has stored a route of each kind
C24_Witness ==
    /\ last.op = "insert_bgp_update"
    /\ \E i, j \in UpdateCalls(last.calls) :
          /\ last.calls[i][5].nexthop = Some("nh3")
          /\ last.calls[j][5].nexthop = Some("nh1")
          /\ last.calls[i][5].med = Some(5)
          /\ last.calls[j][5].med = Some(5)

\* a multiprotocol next hop that is neither IPv4 nor IPv6, and a legacy route
\* of a message without NextHop: both stored without next hop
C24_WitnessAbsent ==
    /\ last.op = "insert_bgp_update"
    /\ last.update = HopPool[2]
    /\ \A i \in UpdateCalls(last.calls) : last.calls[i][5].nexthop = None
    /\ Cardinality(UpdateCalls(last.calls)) = 2

(***************************************************************************)
(* A route distinguisher from the wire, written as text (Serialize and     *)
(* Display) and read back (Deserialize and FromStr), as when a result is   *)
(* serialized and its route distinguisher is named in a later query.       *)
(***************************************************************************)
RdSerialize ==
    /\ last.op = "try_from" /\ last.result[1] = "Ok"
    /\ last' = [op |-> "serialize", rd |-> last.result[2],
                text |-> rd_to_string(last.result[2])]
    /\ UNCHANGED <<clients, sessions, tables, poisoned, caches, conn, stream, since, threads>>

RdDeserialize ==
    /\ last.op = "serialize"
    /\ last' = [op |-> "deserialize", rd |-> last.rd, text |-> last.text,
                result |-> from_str(last.text)]
    /\ UNCHANGED <<clients, sessions, tables, poisoned, caches, conn, stream, since, threads>>

NextRdWire ==
    \/ \E w \in WirePool : RdTryFrom(w)
    \/ RdSerialize
    \/ RdDeserialize

SpecRdWire == Init /\ [][NextRdWire]_vars

\* C25: for every RouteDistinguisher rd that the wire decoder can produce,
\* the text written for rd parses back into rd: the same variant with the
\* same fields.
C25_AsClaimed ==
    last.op = "deserialize" => last.result = Ok(last.rd)

\* what holds: the text parses back into rd unless rd is a Type2 whose asn
\* fits 16 bits, which reads back as Type0 (or as Default, for 0:0)
C25_ExceptSmallType2 ==
    last.op = "deserialize" =>
        IF last.rd.t = "Type2" /\ last.rd.a[1] = 0
        THEN last.result \in {Ok(RdDefault), Ok([last.rd EXCEPT !.t = "Type0"])}
        ELSE last.result = Ok(last.rd)

(***************************************************************************)
(* Messages that announce and withdraw in one: the withdrawal attribute    *)
(* before the announcing one, both in the legacy lists, a multiprotocol    *)
(* withdrawal of a legacy announcement, and a plain announcement.          *)
(***************************************************************************)
OrderPool ==
    << Update(<<MpWithdraws("VPNV4U", <<[rd |-> WireA, prefix |-> A8]>>),
                MpUpdates("VPNV4U", <<[rd |-> WireA, prefix |-> A8]>>)>>,
              NoAddrs, NoAddrs),
       Update(<<PathA>>, [family |-> "IPV4U", addrs |-> <<A8, A16>>],
              [family |-> "IPV4U", addrs |-> <<A8>>]),
       Update(<<MpWithdraws("IPV4U", <<A16>>)>>,
              [family |-> "IPV4U", addrs |-> <<A16>>], NoAddrs),
       Update(<<PathA, HopA>>, [family |-> "IPV4U", addrs |-> <<A8>>], NoAddrs),
       Update(<<PathA, MpUpdates("VPNV4U", <<[rd |-> WireA, prefix |-> A8]>>)>>,
              NoAddrs, NoAddrs) >>

NextOrder ==
    \/ ClientUp("a1", Client("rtr1", "r1"))
    \/ \E i \in DOMAIN OrderPool : InsertBgpUpdate(T1, OrderPool[i])
    \/ GetRoutes(Query(None, OrLonger(Root4), None, None, RdDefault))

SpecOrder == Init /\ [][NextOrder]_vars

\* C26: within one insert_bgp_update call every update_route call comes
\* before the first withdraw_route call, whatever the order of the
\* attributes; an entry the message both announces and withdraws is absent
\* from its table after the call.
C26_UpdatesThenWithdraws ==
    last.op = "insert_bgp_update" =>
       /\ \A i, j \in 1..Len(last.calls) :
             (last.calls[i][1] = "update" /\ last.calls[j][1] = "withdraw") => i < j
       /\ \A e \in EntryIds(last.update) :
             (/\ Convertible(last.update, e)
              /\ KindOf(last.update, e[1]) = "update"
              /\ Withdrawn(last.session, last.update, e)) =>
                /\ \E i \in UpdateCalls(last.calls) :
                      CallIsFor(last.calls[i], last.session, last.update, e)
                /\ ExpectedTarget(last.session, last.update, e) \in DOMAIN tables
                /\ <<PathOf(last.update, e), NetOf(last.update, e)>>
                      \notin DOMAIN tables[ExpectedTarget(last.session, last.update, e)]

\* a message whose withdrawal attribute stands before the attribute that
\* announces the same entry has been applied
C26_Witness ==
    /\ last.op = "insert_bgp_update"
    /\ Len(last.update.attrs) = 2
    /\ last.update.attrs[1].kind = "MPWithdraws"
    /\ last.update.attrs[2].kind = "MPUpdates"
    /\ Len(last.calls) = 2
    /\ last.calls[1][1] = "update" /\ last.calls[2][1] = "withdraw"
    /\ last.calls[1][4] = last.calls[2][4]
    /\ last.calls[1][3] = last.calls[2][3]
    /\ <<0, last.calls[1][3]>> \notin DOMAIN tables[last.calls[1][4]]

\* C27: get_routes is read-only: for every query the set of tables, and so
\* the result of get_routing_instances, the client registry and the session
\* registry are the same after the call as before.
C27_AsClaimed ==
    [][last'.op = "get_routes" =>
          /\ DOMAIN tables' = DOMAIN tables
          /\ get_routing_instances(tables') = get_routing_instances(tables)
          /\ clients' = clients
          /\ sessions' = sessions]_vars

\* what holds: the registries and the entries of the tables are left alone,
\* and the only table a query adds is the empty table of an explicit Table
\* query naming a selector that had none
C27_ExceptTableQuery ==
    [][last'.op = "get_routes" =>
          /\ clients' = clients
          /\ sessions' = sessions
          /\ \A k \in DOMAIN tables : k \in DOMAIN tables' /\ tables'[k] = tables[k]
          /\ \A k \in DOMAIN tables' \ DOMAIN tables :
                /\ IsKind(last'.q, "Table") /\ last'.q.table_query[1].arg = k
                /\ DOMAIN tables'[k] = {}]_vars

(***************************************************************************)
(* The query with its scheduling: the producer's threads run (a scan that  *)
(* can start starts, a send that can be made is made), and the consumer    *)
(* does not stall: it takes what is there, ends a drained stream, or is    *)
(* dropped.                                                                *)
(***************************************************************************)
Producer == (\E k \in StreamSelectors : StreamScan(k)) \/ StreamSend
Consumer == StreamLookup \/ StreamYield \/ StreamEnd \/ StreamDrop

SpecChannelLive ==
    InitLoaded /\ [][NextChannel]_vars /\ WF_vars(Producer) /\ WF_vars(Consumer)

ProducerDone ==
    /\ stream.phase \in {"done", "dropped"}
    /\ stream.todo = {}
    /\ stream.out = {}

C28_WitnessLimit ==
    /\ stream.phase = "active"
    /\ Cardinality(stream.res) = EffectiveLimits(stream.q).max_results
    /\ stream.out # {}

====
